---------------------------- MODULE Spec2Model ----------------------------
(***************************************************************************)
(* Model of the Anonymizer engine of src/src/scripts/anonymizer.py: the    *)
(* consistent name/email mapping, the e-mail sanitizer, the column         *)
(* classifier and the free-text scanner.                                   *)
(*                                                                         *)
(* Python strings are sequences of one-character tokens.  The accented     *)
(* letters are written as ASCII tokens: "e/" is e-acute, "i/" is i-acute,  *)
(* "a~" is a-tilde, "E/", "I/", "A~" their capitals.  Python's None is the *)
(* value None below, a sequence that is no string of the alphabet.         *)
(***************************************************************************)
EXTENDS Integers, Sequences, FiniteSets, TLC

(* ------------------------------ bounds -------------------------------- *)

\* Calls of the public operations in one session.
MaxCalls == 3

(* ---------------------------- characters ------------------------------ *)

None == <<"None">>

LowerSeq ==
    <<"a","b","c","d","e","f","g","h","i","j","k","l","m",
      "n","o","p","q","r","s","t","u","v","w","x","y","z">>

UpperSeq ==
    <<"A","B","C","D","E","F","G","H","I","J","K","L","M",
      "N","O","P","Q","R","S","T","U","V","W","X","Y","Z">>

AsciiLower == {LowerSeq[i] : i \in 1..Len(LowerSeq)}

AsciiUpper == {UpperSeq[i] : i \in 1..Len(UpperSeq)}

AsciiLetter == AsciiLower \cup AsciiUpper

Digit == {"0","1","2","3","4","5","6","7","8","9"}

\* <<accented letter, its base letter, its lower case>>
AccentTable ==
    <<<<"e/", "e", "e/">>, <<"E/", "E", "e/">>,
      <<"a~", "a", "a~">>, <<"A~", "A", "a~">>,
      <<"i/", "i", "i/">>, <<"I/", "I", "i/">>>>

AccentLower == {AccentTable[i][1] : i \in {j \in 1..Len(AccentTable) : AccentTable[j][1] = AccentTable[j][3]}}

AccentUpper == {AccentTable[i][1] : i \in {j \in 1..Len(AccentTable) : AccentTable[j][1] # AccentTable[j][3]}}

Accented == AccentLower \cup AccentUpper

AccentRow(c) == AccentTable[CHOOSE i \in 1..Len(AccentTable) : AccentTable[i][1] = c]

Whitespace == {" ", "\t"}

\* str.isupper() of one character
IsUpper(c) == c \in AsciiUpper \cup AccentUpper

\* \w of the re module on str patterns: letters (accented too), digits, "_"
IsWordChar(c) == c \in AsciiLetter \cup Digit \cup Accented \cup {"_"}

\* str.lower() of one character
LowerChar(c) ==
    IF c \in AsciiUpper THEN LowerSeq[CHOOSE i \in 1..Len(UpperSeq) : UpperSeq[i] = c]
    ELSE IF c \in Accented THEN AccentRow(c)[3]
    ELSE c

\* NFD decomposition with the combining marks (category Mn) dropped
StripAccent(c) == IF c \in Accented THEN AccentRow(c)[2] ELSE c

(* ------------------------- string operations -------------------------- *)

Lower(s) == [i \in 1..Len(s) |-> LowerChar(s[i])]

HasChar(s, c) == \E i \in 1..Len(s) : s[i] = c

RECURSIVE LStrip(_)
LStrip(s) ==
    IF s # <<>> /\ Head(s) \in Whitespace THEN LStrip(Tail(s)) ELSE s

RECURSIVE RStrip(_)
RStrip(s) ==
    IF s # <<>> /\ s[Len(s)] \in Whitespace
    THEN RStrip(SubSeq(s, 1, Len(s) - 1))
    ELSE s

\* str.strip()
Strip(s) == RStrip(LStrip(s))

RECURSIVE LStripDots(_)
LStripDots(s) ==
    IF s # <<>> /\ Head(s) = "." THEN LStripDots(Tail(s)) ELSE s

RECURSIVE RStripDots(_)
RStripDots(s) ==
    IF s # <<>> /\ s[Len(s)] = "."
    THEN RStripDots(SubSeq(s, 1, Len(s) - 1))
    ELSE s

\* str.strip('.')
StripDots(s) == RStripDots(LStripDots(s))

\* str.split(): the maximal runs of non-whitespace characters, in order
RECURSIVE SplitFrom(_, _, _)
SplitFrom(s, i, word) ==
    IF i > Len(s)
    THEN IF word = <<>> THEN <<>> ELSE <<word>>
    ELSE IF s[i] \in Whitespace
         THEN IF word = <<>>
              THEN SplitFrom(s, i + 1, <<>>)
              ELSE <<word>> \o SplitFrom(s, i + 1, <<>>)
         ELSE SplitFrom(s, i + 1, Append(word, s[i]))

Split(s) == SplitFrom(s, 1, <<>>)

\* ' '.join(words)
RECURSIVE JoinSpace(_)
JoinSpace(words) ==
    IF words = <<>> THEN <<>>
    ELSE IF Len(words) = 1 THEN words[1]
    ELSE words[1] \o <<" ">> \o JoinSpace(Tail(words))

\* ' '.join(s.split())
NormalizeSpaces(s) == JoinSpace(Split(s))

\* sub in s
Contains(s, sub) ==
    \E i \in 1..(Len(s) - Len(sub) + 1) : SubSeq(s, i, i + Len(sub) - 1) = sub

StartsWith(s, sub) == Len(sub) <= Len(s) /\ SubSeq(s, 1, Len(sub)) = sub

EndsWith(s, sub) ==
    Len(sub) <= Len(s) /\ SubSeq(s, Len(s) - Len(sub) + 1, Len(s)) = sub

\* split('@', 1): the position of the first '@'
FirstAt(s) == CHOOSE i \in 1..Len(s) : s[i] = "@" /\ \A j \in 1..(i - 1) : s[j] # "@"

\* filter of a sequence
RECURSIVE SelectChars(_, _)
SelectChars(s, keep) ==
    IF s = <<>> THEN <<>>
    ELSE IF Head(s) \in keep THEN <<Head(s)>> \o SelectChars(Tail(s), keep)
    ELSE SelectChars(Tail(s), keep)

_normalize_text(text) == [i \in 1..Len(text) |-> LowerChar(StripAccent(text[i]))]

(* ------------------- insertion-ordered dictionaries ------------------- *)
\* A Python dict is the sequence of its <<key, value>> items in insertion order.

Keys(d) == {d[i][1] : i \in 1..Len(d)}

Has(d, k) == \E i \in 1..Len(d) : d[i][1] = k

Get(d, k) == d[CHOOSE i \in 1..Len(d) : d[i][1] = k][2]

\* d[k] = v
Put(d, k, v) ==
    IF Has(d, k)
    THEN [i \in 1..Len(d) |-> IF d[i][1] = k THEN <<k, v>> ELSE d[i]]
    ELSE Append(d, <<k, v>>)

MaxOf(S) == CHOOSE x \in S : \A y \in S : y <= x

(* ---------------------------- email_pattern --------------------------- *)
\* \b[A-Za-z0-9](?:[A-Za-z0-9._%+-]*[A-Za-z0-9])?@[A-Za-z0-9]
\*   (?:[A-Za-z0-9.-]*[A-Za-z0-9])?\.[A-Z|a-z]{2,}\b   with re.IGNORECASE

EmailAlnum == AsciiLetter \cup Digit

EmailLocalChar == EmailAlnum \cup {".", "_", "%", "+", "-"}

EmailDomainChar == EmailAlnum \cup {".", "-"}

EmailTldChar == AsciiLetter \cup {"|"}

\* \b between s[e] and s[e+1] (0 and Len(s)+1 are outside the string)
WordBoundary(s, e) ==
    (e >= 1 /\ IsWordChar(s[e])) # (e < Len(s) /\ IsWordChar(s[e + 1]))

\* the '@' that closes a local part starting at i (at most one position)
EmailAtPositions(s, i) ==
    {j \in (i + 1)..Len(s) :
        /\ s[j] = "@"
        /\ \A x \in i..(j - 1) : s[x] \in EmailLocalChar
        /\ s[i] \in EmailAlnum
        /\ s[j - 1] \in EmailAlnum}

\* the dots that may be the \. before the top-level domain, the domain starting at k
EmailDotPositions(s, k) ==
    {p \in (k + 1)..Len(s) :
        /\ s[p] = "."
        /\ \A x \in k..(p - 1) : s[x] \in EmailDomainChar
        /\ s[k] \in EmailAlnum
        /\ s[p - 1] \in EmailAlnum}

\* the lengths [A-Z|a-z]{2,} may take after the dot at p, the closing \b included
EmailTldLens(s, p) ==
    {m \in 2..(Len(s) - p) :
        /\ \A x \in (p + 1)..(p + m) : s[x] \in EmailTldChar
        /\ WordBoundary(s, p + m)}

\* every index at which a match starting at i may end
EmailEnds(s, i) ==
    IF i \in 1..Len(s) /\ WordBoundary(s, i - 1)
    THEN UNION {UNION {{p + m : m \in EmailTldLens(s, p)} :
                          p \in EmailDotPositions(s, j + 1)} :
                   j \in EmailAtPositions(s, i)}
    ELSE {}

\* email_pattern.fullmatch(s)
EmailFullMatch(s) == Len(s) \in EmailEnds(s, 1)

\* The end the backtracking engine reports for a match starting at i: the greedy
\* domain takes the last usable dot, the greedy {2,} the longest usable run; 0 is
\* no match.
EmailMatchEnd(s, i) ==
    IF EmailEnds(s, i) = {} THEN 0
    ELSE LET j == CHOOSE x \in EmailAtPositions(s, i) : TRUE
             p == MaxOf({q \in EmailDotPositions(s, j + 1) : EmailTldLens(s, q) # {}})
         IN  p + MaxOf(EmailTldLens(s, p))

\* email_pattern.finditer(s): the <<start, end>> index pairs (1-based, inclusive)
RECURSIVE EmailFindIter(_, _)
EmailFindIter(s, pos) ==
    IF pos > Len(s) THEN <<>>
    ELSE LET e == EmailMatchEnd(s, pos)
         IN  IF e = 0 THEN EmailFindIter(s, pos + 1)
             ELSE <<<<pos, e>>>> \o EmailFindIter(s, e + 1)

(* ------------------------------ counters ------------------------------ *)

StatKeys ==
    {"email_detection_attempts", "email_detection_success",
     "name_detection_attempts", "name_detection_success",
     "unique_names_anonymized", "unique_emails_anonymized",
     "total_name_operations", "total_email_operations",
     "text_replacements", "spacy_errors", "cache_clears"}

\* self.stats[k] += 1
Incr(st, k) == [st EXCEPT ![k] = @ + 1]

(* --------------------------- Value Anonymizer ------------------------- *)
\* The object `self` is the record of the fields of the Anonymizer instance.
\* generated_names and generated_emails list, in call order, the values that
\* self.fake.name() and self.fake.email() have returned.

MutSanitizeKeepsDots(email) ==
    IF ~HasChar(email, "@") THEN email
    ELSE LET at    == FirstAt(email)
             local == SubSeq(email, 1, at - 1)
             dom   == SubSeq(email, at + 1, Len(email))
             norm  == _normalize_text(local)
             kept  == SelectChars(norm, AsciiLower \cup Digit \cup {".", "_", "+", "-"})
         IN  kept \o <<"@">> \o dom

_sanitize_email(email) ==
    IF ~HasChar(email, "@") THEN email
    ELSE LET at    == FirstAt(email)
             local == SubSeq(email, 1, at - 1)
             dom   == SubSeq(email, at + 1, Len(email))
             norm  == _normalize_text(local)
             kept  == SelectChars(norm, AsciiLower \cup Digit \cup {".", "_", "+", "-"})
         IN  StripDots(kept) \o <<"@">> \o dom

MutAlwaysMint(mapping, key) == TRUE

\* `key not in mapping`: the test that guards the generator call
NotMapped(mapping, key) == ~Has(mapping, key)

MutNameKeyKeepsInnerSpaces(original_name) == Strip(original_name)

\* the lookup key of anonymize_name: ' '.join(str(original_name).strip().split())
NameKey(original_name) == NormalizeSpaces(Strip(original_name))

\* the early returns of anonymize_name
NamePassThrough(original_name) ==
    \/ original_name = None
    \/ original_name = <<>>
    \/ Strip(original_name) = <<>>
    \/ Len(Strip(original_name)) < 2

MutEmailKeyKeepsCase(original_email) == Strip(original_email)

\* the lookup key of anonymize_email: str(original_email).strip().lower()
EmailKey(original_email) == Lower(Strip(original_email))

MutPassThroughSkipsGrammar(original_email) ==
    \/ original_email = None
    \/ original_email = <<>>
    \/ ~HasChar(original_email, "@")

\* the early returns of anonymize_email
EmailPassThrough(original_email) ==
    \/ original_email = None
    \/ original_email = <<>>
    \/ ~HasChar(original_email, "@")
    \/ ~EmailFullMatch(EmailKey(original_email))

MutNameNotStored(self, original_name, fake) ==
    IF NamePassThrough(original_name)
    THEN [self |-> self, ret |-> original_name]
    ELSE [self |-> [self EXCEPT !.generated_names = Append(@, fake),
                                !.stats = Incr(@, "total_name_operations")],
          ret |-> fake]

\* fake is the value self.fake.name() returns if it is called
anonymize_name(self, original_name, fake) ==
    IF NamePassThrough(original_name)
    THEN [self |-> self, ret |-> original_name]
    ELSE LET name_str == NameKey(original_name)
             minted   == NotMapped(self.name_mapping, name_str)
             s1 == IF minted
                   THEN [self EXCEPT
                            !.name_mapping = Put(@, name_str, fake),
                            !.generated_names = Append(@, fake),
                            !.stats = Incr(@, "unique_names_anonymized")]
                   ELSE self
             s2 == [s1 EXCEPT !.stats = Incr(@, "total_name_operations")]
         IN  [self |-> s2, ret |-> Get(s2.name_mapping, name_str)]

\* fake is the value self.fake.email() returns if it is called
anonymize_email(self, original_email, fake) ==
    IF EmailPassThrough(original_email)
    THEN [self |-> self, ret |-> original_email]
    ELSE LET email_str == EmailKey(original_email)
             minted    == NotMapped(self.email_mapping, email_str)
             s1 == IF minted
                   THEN [self EXCEPT
                            !.email_mapping = Put(@, email_str, _sanitize_email(fake)),
                            !.generated_emails = Append(@, fake),
                            !.stats = Incr(@, "unique_emails_anonymized")]
                   ELSE self
             s2 == [s1 EXCEPT !.stats = Incr(@, "total_email_operations")]
         IN  [self |-> s2, ret |-> Get(s2.email_mapping, email_str)]

(* --------------------------- Column Classifier ------------------------ *)
\* Scores are exact rationals <<numerator, denominator>>; the keyword weights are
\* in tenths and the keyword score in hundredths.

\* a >= b
Geq(a, b) == a[1] * b[2] >= b[1] * a[2]

\* a = b
Same(a, b) == a[1] * b[2] = b[1] * a[2]

\* confidence_threshold of __init__: 0.6
confidence_threshold == <<6, 10>>

email_keywords == {
    <<<<"e","m","a","i","l">>, 10>>, <<<<"e","-","m","a","i","l">>, 10>>,
    <<<<"m","a","i","l">>, 9>>, <<<<"c","o","r","r","e","i","o">>, 10>>,
    <<<<"c","o","r","r","e","o">>, 9>>,
    <<<<"c","o","n","t","a","c","t","_","e","m","a","i","l">>, 10>>,
    <<<<"w","o","r","k","_","e","m","a","i","l">>, 10>>,
    <<<<"p","e","r","s","o","n","a","l","_","e","m","a","i","l">>, 10>>,
    <<<<"e","l","e","c","t","r","o","n","i","c","_","m","a","i","l">>, 8>>,
    <<<<"c","o","n","t","a","c","t">>, 5>>, <<<<"c","o","n","t","a","t","o">>, 5>>
}

name_keywords == {
    <<<<"n","a","m","e">>, 10>>, <<<<"n","o","m","e">>, 10>>,
    <<<<"f","u","l","l","_","n","a","m","e">>, 10>>,
    <<<<"f","u","l","l","n","a","m","e">>, 10>>,
    <<<<"f","i","r","s","t","_","n","a","m","e">>, 10>>,
    <<<<"l","a","s","t","_","n","a","m","e">>, 10>>,
    <<<<"f","i","r","s","t","n","a","m","e">>, 10>>,
    <<<<"l","a","s","t","n","a","m","e">>, 10>>, <<<<"a","u","t","h","o","r">>, 9>>,
    <<<<"a","u","t","o","r">>, 9>>, <<<<"c","r","e","a","t","o","r">>, 8>>,
    <<<<"c","r","i","a","d","o","r">>, 8>>, <<<<"r","e","v","i","e","w","e","r">>, 9>>,
    <<<<"r","e","v","i","s","o","r">>, 9>>, <<<<"a","p","p","r","o","v","e","r">>, 8>>,
    <<<<"a","p","r","o","v","a","d","o","r">>, 8>>, <<<<"o","w","n","e","r">>, 7>>,
    <<<<"p","r","o","p","r","i","e","t","a","r","i","o">>, 7>>,
    <<<<"r","e","s","p","o","n","s","i","b","l","e">>, 7>>,
    <<<<"r","e","s","p","o","n","s","a","v","e","l">>, 7>>, <<<<"p","e","r","s","o","n">>, 7>>,
    <<<<"p","e","s","s","o","a">>, 7>>, <<<<"c","o","n","t","a","c","t">>, 6>>,
    <<<<"c","o","n","t","a","t","o">>, 6>>, <<<<"c","l","i","e","n","t">>, 7>>,
    <<<<"c","l","i","e","n","t","e">>, 7>>, <<<<"c","u","s","t","o","m","e","r">>, 7>>,
    <<<<"u","s","e","r">>, 5>>, <<<<"u","s","u","a","r","i","o">>, 5>>,
    <<<<"a","s","s","i","g","n","e","d">>, 5>>, <<<<"m","e","m","b","e","r">>, 5>>,
    <<<<"m","e","m","b","r","o">>, 5>>, <<<<"p","a","r","t","i","c","i","p","a","n","t">>, 5>>
}

exclusion_keywords == {
    <<"t","i","t","l","e">>, <<"t","i","t","u","l","o">>, <<"s","u","b","j","e","c","t">>,
    <<"a","s","s","u","n","t","o">>, <<"p","r","o","d","u","c","t">>,
    <<"p","r","o","d","u","t","o">>, <<"i","t","e","m">>, <<"p","r","o","j","e","c","t">>,
    <<"p","r","o","j","e","t","o">>, <<"d","e","s","c","r","i","p","t","i","o","n">>,
    <<"d","e","s","c","r","i","c","a","o">>, <<"c","o","n","t","e","n","t">>,
    <<"c","o","n","t","e","u","d","o">>, <<"t","e","x","t">>, <<"t","e","x","t","o">>,
    <<"n","o","t","e">>, <<"n","o","t","a">>, <<"o","b","s","e","r","v","a","t","i","o","n">>,
    <<"o","b","s","e","r","v","a","c","a","o">>, <<"r","e","v","i","e","w">>,
    <<"c","o","m","m","e","n","t">>, <<"c","o","m","e","n","t","a","r","i","o">>,
    <<"m","e","s","s","a","g","e">>, <<"m","e","n","s","a","g","e","m">>, <<"b","o","d","y">>,
    <<"s","t","a","t","u","s">>, <<"t","y","p","e">>, <<"t","i","p","o">>,
    <<"c","a","t","e","g","o","r","y">>, <<"c","a","t","e","g","o","r","i","a">>,
    <<"t","a","g">>, <<"l","a","b","e","l">>, <<"e","t","i","q","u","e","t","a">>
}

common_words == {
    <<"t","h","e">>, <<"a","n","d">>, <<"o","r">>, <<"b","u","t">>, <<"i","n">>, <<"o","n">>,
    <<"a","t">>, <<"t","o">>, <<"f","o","r">>, <<"b","y">>, <<"w","i","t","h">>, <<"o">>,
    <<"a">>, <<"o","s">>, <<"a","s">>, <<"u","m">>, <<"u","m","a">>, <<"e">>, <<"o","u">>,
    <<"m","a","s">>, <<"e","m">>, <<"d","e">>, <<"p","a","r","a">>, <<"m","r">>,
    <<"m","r","s">>, <<"m","s">>, <<"d","r">>, <<"p","r","o","f">>, <<"s","r">>,
    <<"s","r","a">>, <<"d","r","a">>, <<"c","o","n","t","a","c","t">>, <<"e","m","a","i","l">>,
    <<"p","h","o","n","e">>, <<"a","d","d","r","e","s","s">>, <<"d","e","a","r">>,
    <<"h","e","l","l","o">>, <<"r","e","g","a","r","d","s">>, <<"c","o","n","t","a","t","o">>,
    <<"t","e","l","e","f","o","n","e">>, <<"e","n","d","e","r","e","c","o">>,
    <<"c","a","r","o">>, <<"o","l","a">>,
    <<"a","t","e","n","c","i","o","s","a","m","e","n","t","e">>, <<"m","o","n","d","a","y">>,
    <<"t","u","e","s","d","a","y">>, <<"w","e","d","n","e","s","d","a","y">>,
    <<"t","h","u","r","s","d","a","y">>, <<"f","r","i","d","a","y">>,
    <<"s","a","t","u","r","d","a","y">>, <<"s","u","n","d","a","y">>,
    <<"s","e","g","u","n","d","a">>, <<"t","e","r","c","a">>, <<"q","u","a","r","t","a">>,
    <<"q","u","i","n","t","a">>, <<"s","e","x","t","a">>, <<"s","a","b","a","d","o">>,
    <<"d","o","m","i","n","g","o">>, <<"j","a","n","u","a","r","y">>,
    <<"f","e","b","r","u","a","r","y">>, <<"m","a","r","c","h">>, <<"a","p","r","i","l">>,
    <<"m","a","y">>, <<"j","u","n","e">>, <<"j","u","l","y">>, <<"a","u","g","u","s","t">>,
    <<"s","e","p","t","e","m","b","e","r">>, <<"o","c","t","o","b","e","r">>,
    <<"n","o","v","e","m","b","e","r">>, <<"d","e","c","e","m","b","e","r">>,
    <<"j","a","n","e","i","r","o">>, <<"f","e","v","e","r","e","i","r","o">>,
    <<"m","a","r","c","o">>, <<"a","b","r","i","l">>, <<"m","a","i","o">>,
    <<"j","u","n","h","o">>, <<"j","u","l","h","o">>, <<"a","g","o","s","t","o">>,
    <<"s","e","t","e","m","b","r","o">>, <<"o","u","t","u","b","r","o">>,
    <<"n","o","v","e","m","b","r","o">>, <<"d","e","z","e","m","b","r","o">>,
    <<"c","o","m","p","a","n","y">>, <<"c","o","r","p","o","r","a","t","i","o","n">>,
    <<"l","i","m","i","t","e","d">>, <<"i","n","c">>, <<"l","t","d">>, <<"g","r","o","u","p">>,
    <<"e","m","p","r","e","s","a">>, <<"s","o","c","i","e","d","a","d","e">>,
    <<"l","i","m","i","t","a","d","a">>, <<"g","r","u","p","o">>,
    <<"p","o","r","t","u","g","a","l">>, <<"l","i","s","b","o","a">>, <<"p","o","r","t","o">>,
    <<"c","o","i","m","b","r","a">>, <<"b","r","a","z","i","l">>, <<"b","r","a","s","i","l">>,
    <<"u","s","e","r">>, <<"c","u","s","t","o","m","e","r">>, <<"c","l","i","e","n","t">>,
    <<"u","t","i","l","i","z","a","d","o","r">>, <<"c","l","i","e","n","t","e">>
}

connectors == {
    <<"d","e">>, <<"d","a">>, <<"d","o">>, <<"d","o","s">>, <<"d","a","s">>, <<"e">>,
    <<"v","a","n">>, <<"v","o","n">>, <<"d","e","l">>, <<"d","e","l","l","a">>, <<"d","i">>
}

MutHitIgnoresPosition(column_lower, kw) ==
    IF ~Contains(column_lower, kw[1]) THEN 0 ELSE kw[2] * 10

\* the score one contained keyword gives, in hundredths
KeywordHit(column_lower, kw) ==
    IF ~Contains(column_lower, kw[1]) THEN 0
    ELSE IF column_lower = kw[1] THEN kw[2] * 12
    ELSE IF StartsWith(column_lower, kw[1]) \/ EndsWith(column_lower, kw[1]) THEN kw[2] * 11
    ELSE kw[2] * 10

\* the element of a one-element set: {e : x \in {v}} is e with x bound to the
\* value v, computed once
TheOne(S) == CHOOSE e \in S : TRUE

\* in hundredths, capped at 1.0
_calculate_keyword_score(column_name, keywords) ==
    TheOne({IF max_score < 100 THEN max_score ELSE 100 :
            max_score \in {MaxOf({0} \cup {KeywordHit(column_lower, kw) : kw \in keywords}) :
                              column_lower \in {_normalize_text(column_name)}}})

MutNeverExcluded(column_name) == FALSE

_is_excluded_column(column_name) ==
    \E column_lower \in {_normalize_text(column_name)} :
        \E excl \in exclusion_keywords : Contains(column_lower, excl)

\* number of elements satisfying a predicate
Count(s, P(_)) == Cardinality({i \in 1..Len(s) : P(s[i])})

\* v and isinstance(v, str) and len(str(v).strip()) > 0
EmailValidSample(v) == v # None /\ v # <<>> /\ Len(Strip(v)) > 0

\* '@' in val_str and self.email_pattern.fullmatch(val_str)
EmailSampleHit(v) == HasChar(Strip(v), "@") /\ EmailFullMatch(Strip(v))

MutBlendWeightsSwapped(keyword_score, email_count, n) ==
    <<6 * keyword_score * n + 400 * email_count, 1000 * n>>

MutBlendSubtractsContent(keyword_score, email_count, n) ==
    <<4 * keyword_score * n - 600 * email_count, 1000 * n>>

\* (keyword_score * 0.4) + (content_score * 0.6), content_score = email_count / n
EmailFinalScore(keyword_score, email_count, n) ==
    <<4 * keyword_score * n + 600 * email_count, 1000 * n>>

MutAcceptStrictlyAbove(score) == ~Geq(confidence_threshold, score)

\* score >= self.confidence_threshold
Accept(score) == Geq(score, confidence_threshold)

is_email_column(self, column_name, sample_values) ==
    IF _is_excluded_column(column_name)
    THEN [self |-> self, ret |-> <<FALSE, <<0, 1>>>>]
    ELSE TheOne({
         IF sample_values = <<>> \/ valid_samples = <<>>
         THEN [self |-> self,
               ret |-> <<Accept(<<keyword_score, 100>>), <<keyword_score, 100>>>>]
         ELSE TheOne({
              LET s1 == [self EXCEPT !.stats = Incr(@, "email_detection_attempts")]
                  s2 == IF Accept(final_score)
                        THEN [s1 EXCEPT !.stats = Incr(@, "email_detection_success")]
                        ELSE s1
              IN  [self |-> s2, ret |-> <<Accept(final_score), final_score>>] :
              final_score \in {EmailFinalScore(keyword_score,
                                               Count(valid_samples, EmailSampleHit),
                                               Len(valid_samples))}}) :
         keyword_score \in {_calculate_keyword_score(column_name, email_keywords)},
         valid_samples \in {SelectSeq(sample_values, EmailValidSample)}})

\* [a-zA-ZA`-y"\s'-]: the characters has_special lets pass
NameChars == AsciiLetter \cup Accented \cup Whitespace \cup {"'", "-"}

_looks_like_name(text0) ==
    IF text0 = <<>> \/ Len(text0) < 3 \/ Len(text0) > 150 THEN FALSE
    ELSE LET words == Split(text0)
             text  == JoinSpace(words)
             IsConnector(w) == Lower(w) \in connectors
             capitalized == Count(words, LAMBDA w : IsUpper(w[1]) /\ ~IsConnector(w))
             non_connector_words == SelectSeq(words, LAMBDA w : ~IsConnector(w))
             has_numbers == \E i \in 1..Len(text) : text[i] \in Digit
             has_special == \E i \in 1..Len(text) : text[i] \notin NameChars
         IN  IF Len(words) < 2 \/ Len(words) > 5 THEN FALSE
             ELSE IF \E i \in 1..Len(words) : _normalize_text(words[i]) \in common_words
             THEN FALSE
             ELSE IF non_connector_words = <<>> THEN FALSE
             ELSE /\ 10 * capitalized >= 6 * Len(non_connector_words)
                  /\ ~has_numbers
                  /\ ~has_special

\* answers of the Entity Recognition Port for one text: a PER entity, none, an exception
PortAnswers == {"PER", "O", "raise"}

\* len(self._spacy_cache) > 1000
SpacyCacheLimit == 1000

\* list(self._spacy_cache.keys())[:200]
SpacyCacheEvict == 200

MutPortNeverCached(self, text, answer) ==
    IF Has(self.spacy_cache, text)
    THEN [self |-> self, ret |-> Get(self.spacy_cache, text)]
    ELSE [self |-> self, ret |-> (answer = "PER")]

MutCacheNeverEvicts(self, text, answer) ==
    IF Has(self.spacy_cache, text)
    THEN [self |-> self, ret |-> Get(self.spacy_cache, text)]
    ELSE IF answer = "raise"
    THEN [self |-> self, ret |-> FALSE]
    ELSE [self |-> [self EXCEPT !.spacy_cache = Put(@, text, answer = "PER")],
          ret |-> (answer = "PER")]

\* answer is what self.nlp(text) does if it is called
_is_person_entity(self, text, answer) ==
    IF Has(self.spacy_cache, text)
    THEN [self |-> self, ret |-> Get(self.spacy_cache, text)]
    ELSE IF answer = "raise"
    THEN [self |-> self, ret |-> FALSE]
    ELSE LET is_person == (answer = "PER")
             cached == Put(self.spacy_cache, text, is_person)
             kept == IF Len(cached) > SpacyCacheLimit
                     THEN SubSeq(cached, SpacyCacheEvict + 1, Len(cached))
                     ELSE cached
         IN  [self |-> [self EXCEPT !.spacy_cache = kept], ret |-> is_person]

\* v and isinstance(v, str) and 3 <= len(str(v).strip()) <= 150
NameValidSample(v) ==
    v # None /\ v # <<>> /\ Len(Strip(v)) >= 3 /\ Len(Strip(v)) <= 150

\* the loop of is_name_column over valid_samples[:sample_limit], from index i on:
\* the instance and the count of name indicators after it
RECURSIVE NameContentLoop(_, _, _, _, _)
NameContentLoop(self, samples, answers, i, name_indicators) ==
    IF i > Len(samples)
    THEN [self |-> self, name_indicators |-> name_indicators]
    ELSE TheOne({
         IF Len(val_str) < 3 \/ Len(val_str) > 150
         THEN NameContentLoop(self, samples, answers, i + 1, name_indicators)
         ELSE IF _looks_like_name(val_str)
         THEN NameContentLoop(self, samples, answers, i + 1, name_indicators + 1)
         ELSE TheOne({NameContentLoop(r.self, samples, answers, i + 1,
                                      IF r.ret THEN name_indicators + 1
                                      ELSE name_indicators) :
                      r \in {_is_person_entity(self, val_str, answers[i])}}) :
         val_str \in {Strip(samples[i])}})

\* (keyword_score * 0.35) + (content_score * 0.65), content_score = name_indicators / n
NameFinalScore(keyword_score, name_indicators, n) ==
    <<35 * keyword_score * n + 6500 * name_indicators, 10000 * n>>

\* answers[i] is what the port does for the i-th valid sample if it is asked
is_name_column(self, column_name, sample_values, answers) ==
    IF _is_excluded_column(column_name)
    THEN [self |-> self, ret |-> <<FALSE, <<0, 1>>>>]
    ELSE TheOne({
         IF sample_values = <<>> \/ valid_samples = <<>>
         THEN [self |-> self,
               ret |-> <<Accept(<<keyword_score, 100>>), <<keyword_score, 100>>>>]
         ELSE TheOne({
              TheOne({
                  LET final_score == NameFinalScore(keyword_score, loop.name_indicators,
                                                    sample_limit)
                      s1 == [loop.self EXCEPT
                                !.stats = Incr(@, "name_detection_attempts")]
                      s2 == IF Accept(final_score)
                            THEN [s1 EXCEPT !.stats = Incr(@, "name_detection_success")]
                            ELSE s1
                  IN  [self |-> s2, ret |-> <<Accept(final_score), final_score>>] :
                  loop \in {NameContentLoop(self, SubSeq(valid_samples, 1, sample_limit),
                                            answers, 1, 0)}}) :
              sample_limit \in {IF Len(valid_samples) < 20
                                THEN Len(valid_samples) ELSE 20}}) :
         keyword_score \in {_calculate_keyword_score(column_name, name_keywords)},
         valid_samples \in {SelectSeq(sample_values, NameValidSample)}})

\* The loop of detect_pii_columns from the i-th item of column_samples on.
\* pii_columns is the dict built so far; trace lists, in order, the
\* <<column, type>> pairs whose classifier the loop has called.
RECURSIVE DetectLoop(_, _, _, _, _, _)
DetectLoop(self, column_samples, answers, i, pii_columns, trace) ==
    IF i > Len(column_samples)
    THEN [self |-> self, ret |-> pii_columns, trace |-> trace]
    ELSE LET column_name   == column_samples[i][1]
             sample_values == SelectSeq(column_samples[i][2], LAMBDA v : v # None)
         IN  IF sample_values = <<>>
             THEN DetectLoop(self, column_samples, answers, i + 1, pii_columns, trace)
             ELSE TheOne({
                  IF e.ret[1]
                  THEN DetectLoop(e.self, column_samples, answers, i + 1,
                                  Put(pii_columns, column_name, <<"email", e.ret[2]>>),
                                  t1)
                  ELSE TheOne({
                       IF n.ret[1]
                       THEN DetectLoop(n.self, column_samples, answers, i + 1,
                                       Put(pii_columns, column_name, <<"name", n.ret[2]>>),
                                       t2)
                       ELSE DetectLoop(n.self, column_samples, answers, i + 1,
                                       pii_columns, t2) :
                       n  \in {is_name_column(e.self, column_name, sample_values,
                                              answers[i])},
                       t2 \in {Append(t1, <<column_name, "name">>)}}) :
                  e  \in {is_email_column(self, column_name, sample_values)},
                  t1 \in {Append(trace, <<column_name, "email">>)}})

\* column_samples is the dict as the sequence of its <<column, samples>> items;
\* answers[i] are the port's answers for the samples of the i-th column
detect_pii_columns(self, column_samples, answers) ==
    DetectLoop(self, column_samples, answers, 1, <<>>, <<>>)

(* ------------------------------ Text Scanner -------------------------- *)
\* A replacement is <<start, end, original, replacement>> with Python's 0-based,
\* end-exclusive offsets into text_str.

\* text_str[start:end]
Slice(s, start, end) == SubSeq(s, start + 1, end)

\* Phase 1 from the k-th match on: fakes[k] is what self.fake.email() returns for
\* the k-th match if it is called
RECURSIVE EmailPhase(_, _, _, _, _, _)
EmailPhase(self, text_str, matches, fakes, k, replacements) ==
    IF k > Len(matches)
    THEN [self |-> self, replacements |-> replacements]
    ELSE LET start == matches[k][1] - 1
             end   == matches[k][2]
             original_email == Slice(text_str, start, end)
             r == anonymize_email(self, original_email, fakes[k])
         IN  EmailPhase(r.self, text_str, matches, fakes, k + 1,
                        IF original_email # r.ret
                        THEN Append(replacements, <<start, end, original_email, r.ret>>)
                        ELSE replacements)

\* start <= ent.start_char < end or start < ent.end_char <= end, for some replacement
Overlaps(replacements, ent_start, ent_end) ==
    \E i \in 1..Len(replacements) :
        \/ replacements[i][1] <= ent_start /\ ent_start < replacements[i][2]
        \/ replacements[i][1] < ent_end /\ ent_end <= replacements[i][2]

\* Phase 2 from the k-th entity on: ents[k] is <<label, start_char, end_char>>,
\* fakes[k] is what self.fake.name() returns for it if it is called
RECURSIVE EntityPhase(_, _, _, _, _, _)
EntityPhase(self, text_str, ents, fakes, k, replacements) ==
    IF k > Len(ents)
    THEN [self |-> self, replacements |-> replacements]
    ELSE LET label == ents[k][1]
             start == ents[k][2]
             end   == ents[k][3]
             original_name == Slice(text_str, start, end)
         IN  IF label # "PER" \/ Overlaps(replacements, start, end)
                \/ ~_looks_like_name(original_name)
             THEN EntityPhase(self, text_str, ents, fakes, k + 1, replacements)
             ELSE LET r == anonymize_name(self, original_name, fakes[k])
                  IN  EntityPhase(r.self, text_str, ents, fakes, k + 1,
                                  IF original_name # r.ret
                                  THEN Append(replacements,
                                              <<start, end, original_name, r.ret>>)
                                  ELSE replacements)

MutUnsorted(replacements) == replacements

\* replacements.sort(key=lambda x: x[0], reverse=True): stable, by start descending
RECURSIVE SortByStartDesc(_)
SortByStartDesc(replacements) ==
    IF replacements = <<>> THEN <<>>
    ELSE LET top == MaxOf({replacements[i][1] : i \in 1..Len(replacements)})
             first == CHOOSE i \in 1..Len(replacements) :
                         /\ replacements[i][1] = top
                         /\ \A j \in 1..(i - 1) : replacements[j][1] # top
         IN  <<replacements[first]>> \o
             SortByStartDesc(SubSeq(replacements, 1, first - 1) \o
                             SubSeq(replacements, first + 1, Len(replacements)))

\* Phase 3: the replacements applied in the order given
RECURSIVE ApplyReplacements(_, _)
ApplyReplacements(anonymized_text, replacements) ==
    IF replacements = <<>> THEN anonymized_text
    ELSE LET r == Head(replacements)
         IN  ApplyReplacements(
                 SubSeq(anonymized_text, 1, r[1]) \o r[4] \o
                 SubSeq(anonymized_text, r[2] + 1, Len(anonymized_text)),
                 Tail(replacements))

\* arguments that are not strings: None, and an integer such as 12345678901
NotStr == {None, <<"int">>}

MutScanShortText(text) == text \in NotStr \/ text = <<>>

\* the early returns of anonymize_text
TextPassThrough(text) == text \in NotStr \/ text = <<>> \/ Len(Strip(text)) < 10

MutFailureDropsSpans(self, replacements) ==
    [self |-> [self EXCEPT !.stats = Incr(@, "spacy_errors")], replacements |-> <<>>]

\* except Exception: count the error, keep the replacements collected so far
OnPortFailure(self, replacements) ==
    [self |-> [self EXCEPT !.stats = Incr(@, "spacy_errors")],
     replacements |-> replacements]

MutEntityPassFirst(self, text, fake_emails, doc, fake_names) ==
    IF TextPassThrough(text)
    THEN [self |-> self, ret |-> text, replacements |-> <<>>, queued |-> <<>>]
    ELSE LET text_str == Strip(text)
             ph == EntityPhase(self, text_str, doc.ents, fake_names, 1, <<>>)
             p2 == IF doc.raised THEN OnPortFailure(ph.self, ph.replacements) ELSE ph
             p1 == EmailPhase(p2.self, text_str, EmailFindIter(text_str, 1), fake_emails,
                              1, p2.replacements)
             sorted == SortByStartDesc(p1.replacements)
             s3 == [p1.self EXCEPT !.stats =
                       [@ EXCEPT !["text_replacements"] = @ + Len(sorted)]]
         IN  [self |-> s3, ret |-> ApplyReplacements(text_str, sorted),
              replacements |-> sorted, queued |-> p1.replacements]

\* doc is what the try block meets: doc.ents are the entities self.nlp(text_str)
\* returned, or, if doc.raised, the entities handled before the exception
\* (none when self.nlp itself raises); fake_emails and fake_names are the
\* values the generator returns when called. Besides the returned string the
\* result has the list replacements as sorted at line 493 and, as queued, the
\* same list in the order its items were appended.
anonymize_text(self, text, fake_emails, doc, fake_names) ==
    IF TextPassThrough(text)
    THEN [self |-> self, ret |-> text, replacements |-> <<>>, queued |-> <<>>]
    ELSE LET text_str == Strip(text)
             p1 == EmailPhase(self, text_str, EmailFindIter(text_str, 1), fake_emails,
                              1, <<>>)
             ph == EntityPhase(p1.self, text_str, doc.ents, fake_names, 1,
                               p1.replacements)
             p2 == IF doc.raised THEN OnPortFailure(ph.self, ph.replacements) ELSE ph
             sorted == SortByStartDesc(p2.replacements)
             s3 == [p2.self EXCEPT !.stats =
                       [@ EXCEPT !["text_replacements"] = @ + Len(sorted)]]
         IN  [self |-> s3, ret |-> ApplyReplacements(text_str, sorted),
              replacements |-> sorted, queued |-> p2.replacements]

(* --------------------------- Statistics, cache ------------------------ *)

\* dict(list(d.items())[:n])
FirstItems(d, n) == SubSeq(d, 1, IF Len(d) < n THEN Len(d) ELSE n)

get_statistics(self) ==
    [detection |->
        [email_attempts |-> self.stats["email_detection_attempts"],
         email_success  |-> self.stats["email_detection_success"],
         name_attempts  |-> self.stats["name_detection_attempts"],
         name_success   |-> self.stats["name_detection_success"]],
     anonymization |->
        [unique_names      |-> self.stats["unique_names_anonymized"],
         unique_emails     |-> self.stats["unique_emails_anonymized"],
         total_name_ops    |-> self.stats["total_name_operations"],
         total_email_ops   |-> self.stats["total_email_operations"],
         text_replacements |-> self.stats["text_replacements"]],
     errors |-> [spacy_errors |-> self.stats["spacy_errors"]],
     mappings |->
        [total_names_mapped  |-> Len(self.name_mapping),
         total_emails_mapped |-> Len(self.email_mapping)],
     sample_mappings |->
        [names  |-> FirstItems(self.name_mapping, 5),
         emails |-> FirstItems(self.email_mapping, 3)],
     cache |-> [spacy_cache_size |-> Len(self.spacy_cache)]]

MutClearCacheDropsMappings(self) ==
    [self EXCEPT !.spacy_cache = <<>>,
                 !.name_mapping = <<>>,
                 !.email_mapping = <<>>,
                 !.stats = Incr(@, "cache_clears")]

clear_cache(self) ==
    [self EXCEPT !.spacy_cache = <<>>, !.stats = Incr(@, "cache_clears")]

(* ------------------------------- inputs ------------------------------- *)

\* Sequences over S of length 0..n
RECURSIVE SeqsUpTo(_, _)
SeqsUpTo(S, n) ==
    IF n = 0 THEN {<<>>}
    ELSE LET shorter == SeqsUpTo(S, n - 1)
         IN  shorter \cup {Append(s, x) : s \in {t \in shorter : Len(t) = n - 1}, x \in S}

\* arguments of anonymize_name: None, '', '  ', 'a', 'Al Bo', ' Al  Bo ', 'Cy Di'
NameInputs ==
    {None, <<>>, <<" "," ">>, <<"a">>,
     <<"A","l"," ","B","o">>,
     <<" ","A","l"," "," ","B","o"," ">>,
     <<"C","y"," ","D","i">>}

\* values self.fake.name() may return: 'Xu Yi', 'Ze Wu'
FakeNames == {<<"X","u"," ","Y","i">>, <<"Z","e"," ","W","u">>}

\* arguments of anonymize_email:
\* None, '', 'ab', 'a@b', '.a@b.co', 'a@b.co', ' A@B.co ', 'c@d.pt'
EmailInputs ==
    {None, <<>>, <<"a","b">>, <<"a","@","b">>,
     <<".","a","@","b",".","c","o">>,
     <<"a","@","b",".","c","o">>,
     <<" ","A","@","B",".","c","o"," ">>,
     <<"c","@","d",".","p","t">>}

\* values self.fake.email() may return: 'X.y@m.pt', '.e/ q.@m.pt'
FakeEmails ==
    {<<"X",".","y","@","m",".","p","t">>,
     <<".","e/"," ","q",".","@","m",".","p","t">>}

\* the operations of one session are called with these arguments:
\* names 'Al Bo', ' Al  Bo '
SessionNames ==
    {<<"A","l"," ","B","o">>,
     <<" ","A","l"," "," ","B","o"," ">>}

\* emails 'a@b.co', ' A@B.co '
SessionEmails ==
    {<<"a","@","b",".","c","o">>,
     <<" ","A","@","B",".","c","o"," ">>}

\* text ' Al Bo a@b.co '
SessionTexts ==
    {<<" ","A","l"," ","B","o"," ","a","@","b",".","c","o"," ">>}

\* what self.nlp(text_str) does in a session: it raises, finds nothing, or finds
\* 'Al Bo' as a person or as a place
SessionDocs ==
    {[raised |-> TRUE, ents |-> <<>>],
     [raised |-> FALSE, ents |-> <<>>],
     [raised |-> FALSE, ents |-> <<<<"PER", 0, 5>>>>],
     [raised |-> FALSE, ents |-> <<<<"LOC", 0, 5>>>>]}

\* columns 'email', 'title'
SessionColumns == {<<"e","m","a","i","l">>, <<"t","i","t","l","e">>}

\* samples ['a@b.co'], ['xyz']
SessionSamples == {<<<<"a","@","b",".","c","o">>>>, <<<<"x","y","z">>>>}

(* -------------------------------- state ------------------------------- *)

VARIABLES
    name_mapping,      \* self.name_mapping
    email_mapping,     \* self.email_mapping
    stats,             \* self.stats
    spacy_cache,       \* self._spacy_cache
    generated_names,   \* the values self.fake.name() has returned, in call order
    generated_emails,  \* the values self.fake.email() has returned, in call order
    ncalls,            \* calls of the public operations so far
    call,              \* the last call: its operation and argument
    ret,               \* the value the last call returned
    first_ret,         \* dict: <<operation, argument>> -> the value its first call returned
    threads,           \* the callers that share the instance: each one's position and locals
    db                 \* the rows of the database table a driver works on

vars ==
    <<name_mapping, email_mapping, stats, spacy_cache, generated_names,
      generated_emails, ncalls, call, ret, first_ret, threads, db>>

Self ==
    [name_mapping     |-> name_mapping,
     email_mapping    |-> email_mapping,
     stats            |-> stats,
     spacy_cache      |-> spacy_cache,
     generated_names  |-> generated_names,
     generated_emails |-> generated_emails]

\* the fields of the instance after a call
Commit(self) ==
    /\ name_mapping' = self.name_mapping
    /\ email_mapping' = self.email_mapping
    /\ stats' = self.stats
    /\ spacy_cache' = self.spacy_cache
    /\ generated_names' = self.generated_names
    /\ generated_emails' = self.generated_emails

\* two callers
ThreadIds == {1, 2}

\* a caller that has not called yet: val is the value it generated, cnt the
\* counter it loaded for `+= 1`
IdleThread ==
    [pc |-> "idle", op |-> "none", arg |-> None, key |-> None, val |-> None,
     cnt |-> 0, ret |-> None]

\* the bookkeeping of one call of operation op with argument arg returning r,
\* made by the session's only caller
Returned(op, arg, r) ==
    /\ threads' = threads
    /\ db' = db
    /\ ncalls' = ncalls + 1
    /\ call' = <<op, arg>>
    /\ ret' = r
    /\ first_ret' = IF op \in {"anonymize_name", "anonymize_email", "anonymize_text"}
                       /\ ~Has(first_ret, <<op, arg>>)
                    THEN Put(first_ret, <<op, arg>>, r)
                    ELSE first_ret

\* Anonymizer.__init__
Init ==
    /\ name_mapping = <<>>
    /\ email_mapping = <<>>
    /\ stats = [k \in StatKeys |-> 0]
    /\ spacy_cache = <<>>
    /\ generated_names = <<>>
    /\ generated_emails = <<>>
    /\ ncalls = 0
    /\ call = <<"__init__", None>>
    /\ ret = None
    /\ first_ret = <<>>
    /\ threads = [t \in ThreadIds |-> IdleThread]
    /\ db = <<>>

(* ------------------------------- actions ------------------------------ *)

AnonymizeNameFrom(inputs, fakes) ==
    /\ ncalls < MaxCalls
    /\ \E v \in inputs, fake \in fakes :
          \E r \in {anonymize_name(Self, v, fake)} :
              Commit(r.self) /\ Returned("anonymize_name", v, r.ret)

AnonymizeEmailFrom(inputs, fakes) ==
    /\ ncalls < MaxCalls
    /\ \E v \in inputs, fake \in fakes :
          \E r \in {anonymize_email(Self, v, fake)} :
              Commit(r.self) /\ Returned("anonymize_email", v, r.ret)

\* every generator call of one anonymize_text call returns fake_email, fake_name;
\* the call is recorded with what the recognition port did for the text
AnonymizeTextFrom(texts, docs) ==
    /\ ncalls < MaxCalls
    /\ \E text \in texts, doc \in docs, fake_email \in FakeEmails, fake_name \in FakeNames :
          \E r \in {anonymize_text(Self, text,
                                  [k \in 1..Len(text) |-> fake_email], doc,
                                  [k \in 1..Len(doc.ents) |-> fake_name])} :
              /\ Commit(r.self)
              /\ Returned("anonymize_text", <<text, doc>>,
                          [text |-> r.ret, replacements |-> r.replacements,
                           queued |-> r.queued])

IsEmailColumnFrom(columns, samples) ==
    \E column_name \in columns, sample_values \in samples :
        \E r \in {is_email_column(Self, column_name, sample_values)} :
            /\ Commit(r.self)
            /\ Returned("is_email_column", <<column_name, sample_values>>, r.ret)

\* the port is asked about a valid sample that does not look like a name
PortAsked(v) == ~_looks_like_name(Strip(v))

\* what the port may do for each valid sample of a column: one of PortAnswers
\* where it may be asked, no entity where it is not
AnswersFor(sample_values) ==
    LET valid_samples == SelectSeq(sample_values, NameValidSample)
    IN  {answers \in [1..Len(valid_samples) -> PortAnswers] :
            \A i \in 1..Len(valid_samples) :
                ~PortAsked(valid_samples[i]) => answers[i] = "O"}

\* the answers for the columns of a dict from the i-th on, as sequences
RECURSIVE ColumnAnswersFor(_, _)
ColumnAnswersFor(column_samples, i) ==
    IF i > Len(column_samples) THEN {<<>>}
    ELSE {<<a>> \o rest : a \in AnswersFor(column_samples[i][2]),
                          rest \in ColumnAnswersFor(column_samples, i + 1)}

IsNameColumnFrom(columns, samples) ==
    \E column_name \in columns, sample_values \in samples :
        \E answers \in AnswersFor(sample_values) :
            \E r \in {is_name_column(Self, column_name, sample_values, answers)} :
                /\ Commit(r.self)
                /\ Returned("is_name_column", <<column_name, sample_values>>, r.ret)

\* the dicts with one column
OneColumnDicts(columns, samples) == {<<<<c, s>>>> : c \in columns, s \in samples}

DetectPiiColumnsFrom(dicts) ==
    \E column_samples \in dicts :
        \E answers \in ColumnAnswersFor(column_samples, 1) :
            \E r \in {detect_pii_columns(Self, column_samples, answers)} :
                /\ Commit(r.self)
                /\ Returned("detect_pii_columns", column_samples,
                            [pii_columns |-> r.ret, trace |-> r.trace])

AnonymizeName == AnonymizeNameFrom(SessionNames, FakeNames)

AnonymizeEmail == AnonymizeEmailFrom(SessionEmails, FakeEmails)

AnonymizeText == AnonymizeTextFrom(SessionTexts, SessionDocs)

IsEmailColumn == ncalls < MaxCalls /\ IsEmailColumnFrom(SessionColumns, SessionSamples)

IsNameColumn == ncalls < MaxCalls /\ IsNameColumnFrom(SessionColumns, SessionSamples)

DetectPiiColumns ==
    /\ ncalls < MaxCalls
    /\ DetectPiiColumnsFrom(OneColumnDicts(SessionColumns, SessionSamples))

GetStatistics ==
    /\ ncalls < MaxCalls
    /\ Commit(Self)
    /\ Returned("get_statistics", None, get_statistics(Self))

ClearCache ==
    /\ ncalls < MaxCalls
    /\ Commit(clear_cache(Self))
    /\ Returned("clear_cache", None, None)

Next ==
    \/ GetStatistics
    \/ DetectPiiColumns
    \/ AnonymizeText
    \/ AnonymizeName
    \/ AnonymizeEmail
    \/ IsEmailColumn
    \/ IsNameColumn
    \/ ClearCache

Spec == Init /\ [][Next]_vars

(* ------------------- sessions of the Value Anonymizer ----------------- *)

ValuesAnonymizeName == AnonymizeNameFrom(NameInputs, FakeNames)

ValuesAnonymizeEmail == AnonymizeEmailFrom(EmailInputs, FakeEmails)

NextValues ==
    \/ ValuesAnonymizeName
    \/ ValuesAnonymizeEmail

SpecValues == Init /\ [][NextValues]_vars

(* ------------------ one address, any generator output ----------------- *)

\* length of the local part of a generated email
MaxLocalLen == 2

\* characters of a generated local part: upper case, accented, dot, space, '%'
LocalAlphabet == {"B", "e/", ".", " ", "%"}

\* what self.fake.email() may return: '<local>@m.pt'
GeneratedEmails ==
    {local \o <<"@","m",".","p","t">> :
        local \in SeqsUpTo(LocalAlphabet, MaxLocalLen) \ {<<>>}}

\* 'a@b.co', ' A@B.co '
SanitizeInputs ==
    {<<"a","@","b",".","c","o">>, <<" ","A","@","B",".","c","o"," ">>}

SanitizeAnonymizeEmail == AnonymizeEmailFrom(SanitizeInputs, GeneratedEmails)

NextSanitize == SanitizeAnonymizeEmail

SpecSanitize == Init /\ [][NextSanitize]_vars

(* --------------------- one call of the classifier --------------------- *)

\* samples per column
MaxSamples == 3

\* 'email', 'user_email', 'my_contact_x', 'f1', 'ti/tulo', 'mail_tag', 'nome', 'autor',
\* 'reviewer_name'
ClassifyColumns ==
    {<<"e","m","a","i","l">>, <<"u","s","e","r","_","e","m","a","i","l">>,
     <<"m","y","_","c","o","n","t","a","c","t","_","x">>, <<"f","1">>,
     <<"t","i/","t","u","l","o">>, <<"m","a","i","l","_","t","a","g">>,
     <<"n","o","m","e">>, <<"a","u","t","o","r">>,
     <<"r","e","v","i","e","w","e","r","_","n","a","m","e">>}

\* '', 'a@b.co', 'Al Bo', 'xyz', 'ab'
SamplePool ==
    {<<>>, <<"a","@","b",".","c","o">>, <<"A","l"," ","B","o">>,
     <<"x","y","z">>, <<"a","b">>}

\* the lists over the pool, and [None], [None, '']
SampleLists == SeqsUpTo(SamplePool, MaxSamples) \cup {<<None>>, <<None, <<>>>>}

\* 'email', 'f1', 'mail_tag', 'nome', 'phone'
DetectColumns ==
    {<<"e","m","a","i","l">>, <<"f","1">>, <<"m","a","i","l","_","t","a","g">>,
     <<"n","o","m","e">>, <<"p","h","o","n","e">>}

\* [None], ['a@b.co'], ['Al Bo', 'xyz'], ['', None], ['+351912345678']
DetectSamples ==
    {<<None>>, <<<<"a","@","b",".","c","o">>>>,
     <<<<"A","l"," ","B","o">>, <<"x","y","z">>>>, <<<<>>, None>>,
     <<<<"+","3","5","1","9","1","2","3","4","5","6","7","8">>>>}

\* the dicts with one or two columns
DetectDicts ==
    LET one == OneColumnDicts(DetectColumns, DetectSamples)
    IN  one \cup {p[1] \o p[2] : p \in {q \in one \X one : q[1][1][1] # q[2][1][1]}}

\* is_name_column('f1', ['xyz']): the call that fills the recognition cache
WarmCall == <<"is_name_column", <<<<"f","1">>, <<<<"x","y","z">>>>>>>>

\* the classifier is called on a fresh instance or after the warming call
ClassifyReady == ncalls = 0 \/ (ncalls = 1 /\ call = WarmCall)

ClassifyEmail == ClassifyReady /\ IsEmailColumnFrom(ClassifyColumns, SampleLists)

ClassifyName == ClassifyReady /\ IsNameColumnFrom(ClassifyColumns, SampleLists)

ClassifyDetect == ClassifyReady /\ DetectPiiColumnsFrom(DetectDicts)

NextClassify ==
    \/ ClassifyDetect
    \/ ClassifyEmail
    \/ ClassifyName

SpecClassify == Init /\ [][NextClassify]_vars


(* ------------------- two callers sharing one instance ----------------- *)
\* anonymize_name and anonymize_email run by two threads on one Anonymizer.
\* A thread can be preempted between any two accesses of the shared fields:
\* the membership test, the generator call, the store, the load and the store
\* of each `+= 1`, and the final read.

\* 'Al Bo', ' Al  Bo ', None
ThreadNames ==
    {<<"A","l"," ","B","o">>, <<" ","A","l"," "," ","B","o"," ">>, None}

\* 'a@b.co', ' A@B.co ', 'ab'
ThreadEmails ==
    {<<"a","@","b",".","c","o">>, <<" ","A","@","B",".","c","o"," ">>, <<"a","b">>}

ThreadOps == {"anonymize_name", "anonymize_email"}

ThreadInputs(op) == IF op = "anonymize_name" THEN ThreadNames ELSE ThreadEmails

ThreadFakes(op) == IF op = "anonymize_name" THEN FakeNames ELSE FakeEmails

ThreadMapping(op) == IF op = "anonymize_name" THEN name_mapping ELSE email_mapping

UniqueCounter(op) ==
    IF op = "anonymize_name" THEN "unique_names_anonymized"
    ELSE "unique_emails_anonymized"

TotalCounter(op) ==
    IF op = "anonymize_name" THEN "total_name_operations"
    ELSE "total_email_operations"

\* thread t moves to pc with the locals of `changes` set
Goto(t, changes) ==
    /\ threads' = [threads EXCEPT ![t] =
                      [f \in DOMAIN @ |-> IF f \in DOMAIN changes THEN changes[f] ELSE @[f]]]
    /\ db' = db

\* the call and its early returns, which read no shared field
ThreadCall(t) ==
    /\ threads[t].pc = "idle"
    /\ \E op \in ThreadOps :
          \E v \in ThreadInputs(op) :
              IF op = "anonymize_name"
              THEN IF NamePassThrough(v)
                   THEN Goto(t, [pc |-> "done", op |-> op, arg |-> v, ret |-> v])
                   ELSE Goto(t, [pc |-> "check", op |-> op, arg |-> v, key |-> NameKey(v)])
              ELSE IF EmailPassThrough(v)
                   THEN Goto(t, [pc |-> "done", op |-> op, arg |-> v, ret |-> v])
                   ELSE Goto(t, [pc |-> "check", op |-> op, arg |-> v, key |-> EmailKey(v)])
    /\ UNCHANGED <<name_mapping, email_mapping, stats, spacy_cache, generated_names,
                   generated_emails, ncalls, call, ret, first_ret>>

\* if name_str not in self.name_mapping / if email_str not in self.email_mapping
ThreadCheck(t) ==
    /\ threads[t].pc = "check"
    /\ IF NotMapped(ThreadMapping(threads[t].op), threads[t].key)
       THEN Goto(t, [pc |-> "mint"])
       ELSE Goto(t, [pc |-> "total_load"])
    /\ UNCHANGED <<name_mapping, email_mapping, stats, spacy_cache, generated_names,
                   generated_emails, ncalls, call, ret, first_ret>>

\* self.fake.name() / self._sanitize_email(self.fake.email())
ThreadMint(t) ==
    /\ threads[t].pc = "mint"
    /\ \E fake \in ThreadFakes(threads[t].op) :
          IF threads[t].op = "anonymize_name"
          THEN /\ Goto(t, [pc |-> "store", val |-> fake])
               /\ generated_names' = Append(generated_names, fake)
               /\ UNCHANGED generated_emails
          ELSE /\ Goto(t, [pc |-> "store", val |-> _sanitize_email(fake)])
               /\ generated_emails' = Append(generated_emails, fake)
               /\ UNCHANGED generated_names
    /\ UNCHANGED <<name_mapping, email_mapping, stats, spacy_cache,
                   ncalls, call, ret, first_ret>>

\* self.name_mapping[name_str] = ... / self.email_mapping[email_str] = fake_email
ThreadStore(t) ==
    /\ threads[t].pc = "store"
    /\ IF threads[t].op = "anonymize_name"
       THEN /\ name_mapping' = Put(name_mapping, threads[t].key, threads[t].val)
            /\ UNCHANGED email_mapping
       ELSE /\ email_mapping' = Put(email_mapping, threads[t].key, threads[t].val)
            /\ UNCHANGED name_mapping
    /\ Goto(t, [pc |-> "unique_load"])
    /\ UNCHANGED <<stats, spacy_cache, generated_names, generated_emails,
                   ncalls, call, ret, first_ret>>

\* self.stats[...] += 1: the load
ThreadStatLoad(t) ==
    /\ threads[t].pc \in {"unique_load", "total_load"}
    /\ IF threads[t].pc = "unique_load"
       THEN Goto(t, [pc |-> "unique_store", cnt |-> stats[UniqueCounter(threads[t].op)]])
       ELSE Goto(t, [pc |-> "total_store", cnt |-> stats[TotalCounter(threads[t].op)]])
    /\ UNCHANGED <<name_mapping, email_mapping, stats, spacy_cache, generated_names,
                   generated_emails, ncalls, call, ret, first_ret>>

\* self.stats[...] += 1: the store
ThreadStatStore(t) ==
    /\ threads[t].pc \in {"unique_store", "total_store"}
    /\ IF threads[t].pc = "unique_store"
       THEN /\ stats' = [stats EXCEPT ![UniqueCounter(threads[t].op)] = threads[t].cnt + 1]
            /\ Goto(t, [pc |-> "total_load"])
       ELSE /\ stats' = [stats EXCEPT ![TotalCounter(threads[t].op)] = threads[t].cnt + 1]
            /\ Goto(t, [pc |-> "return"])
    /\ UNCHANGED <<name_mapping, email_mapping, spacy_cache, generated_names,
                   generated_emails, ncalls, call, ret, first_ret>>

\* return self.name_mapping[name_str] / return self.email_mapping[email_str]
ThreadReturn(t) ==
    /\ threads[t].pc = "return"
    /\ Goto(t, [pc |-> "done", ret |-> Get(ThreadMapping(threads[t].op), threads[t].key)])
    /\ UNCHANGED <<name_mapping, email_mapping, stats, spacy_cache, generated_names,
                   generated_emails, ncalls, call, ret, first_ret>>

NextThreads ==
    \E t \in ThreadIds :
        \/ ThreadCall(t)
        \/ ThreadCheck(t)
        \/ ThreadMint(t)
        \/ ThreadStore(t)
        \/ ThreadStatLoad(t)
        \/ ThreadStatStore(t)
        \/ ThreadReturn(t)

SpecThreads == Init /\ [][NextThreads]_vars

(* ---------------------- operations the class lacks -------------------- *)

\* the methods class Anonymizer defines
Methods ==
    {"__init__", "_load_common_words", "_normalize_text", "_calculate_keyword_score",
     "_is_excluded_column", "is_email_column", "is_name_column", "_looks_like_name",
     "_is_person_entity", "detect_pii_columns", "anonymize_name", "anonymize_email",
     "_sanitize_email", "anonymize_text", "get_statistics", "clear_cache"}

\* the attributes __init__ sets
Attributes ==
    {"nlp", "fake", "confidence_threshold", "name_mapping", "email_mapping", "stats",
     "email_pattern", "name_pattern", "email_keywords", "name_keywords",
     "exclusion_keywords", "common_words", "_spacy_cache"}

\* what anonymizer.<method>(...) raises when the instance has no such attribute
AttributeError == <<"AttributeError">>

\* the attribute lookup fails: nothing is called and the instance is unchanged
MissingMethod(method) == method \notin Methods \cup Attributes

\* arguments of anonymize_phone:
\* None, '+351912345678', '(21) 98765-4321', '+351 912 345 678', '912345678'
PhoneInputs ==
    {None,
     <<"+","3","5","1","9","1","2","3","4","5","6","7","8">>,
     <<"(","2","1",")"," ","9","8","7","6","5","-","4","3","2","1">>,
     <<"+","3","5","1"," ","9","1","2"," ","3","4","5"," ","6","7","8">>,
     <<"9","1","2","3","4","5","6","7","8">>}

\* anonymizer.anonymize_phone(v)
AnonymizePhone ==
    /\ ncalls < MaxCalls
    /\ MissingMethod("anonymize_phone")
    /\ \E v \in PhoneInputs :
          Commit(Self) /\ Returned("anonymize_phone", v, AttributeError)

NextPhone ==
    \/ AnonymizePhone
    \/ AnonymizeName
    \/ AnonymizeEmail

SpecPhone == Init /\ [][NextPhone]_vars

(* ----------------------------- scanning texts ------------------------- *)

\* text calls in a row
MaxTextCalls == 2

\* self.nlp(text_str) returns the entities ents
Found(ents) == [raised |-> FALSE, ents |-> ents]

\* the try block raises after the entities ents were handled
Failed(ents) == [raised |-> TRUE, ents |-> ents]

\* a text and what the recognition port may do for it
TextCase(text, docs) == [text |-> text, docs |-> docs]

\* arguments too short to scan, or not strings:
\* None, 12345678901, '', 'a@b.co', '  a@b.co   ', ' Al Bo    '
ShortTexts ==
    {None, <<"int">>, <<>>,
     <<"a","@","b",".","c","o">>,
     <<" "," ","a","@","b",".","c","o"," "," "," ">>,
     <<" ","A","l"," ","B","o"," "," "," "," ">>}

\* 'a@b.co Al Bo': the port finds nothing, finds 'Al Bo', finds 'co Al Bo',
\* raises, or the block raises after 'Al Bo' was handled
TextEmailName ==
    TextCase(<<"a","@","b",".","c","o"," ","A","l"," ","B","o">>,
             {Found(<<>>), Found(<<<<"PER", 7, 12>>>>), Found(<<<<"PER", 4, 12>>>>),
              Failed(<<>>), Failed(<<<<"PER", 7, 12>>>>)})

\* 'a@b.co c@d.pt'
TextTwoEmails ==
    TextCase(<<"a","@","b",".","c","o"," ","c","@","d",".","p","t">>,
             {Found(<<>>), Failed(<<>>)})

\* ' Al Bo, Cy Di ': the port finds both names, or a place and a name
TextTwoNames ==
    TextCase(<<" ","A","l"," ","B","o",","," ","C","y"," ","D","i"," ">>,
             {Found(<<<<"PER", 0, 5>>, <<"PER", 7, 12>>>>),
              Found(<<<<"LOC", 0, 5>>, <<"PER", 7, 12>>>>)})

\* 'Plano revisto por Joa~o Silva': the port finds 'Joa~o Silva'
TextPlano ==
    TextCase(<<"P","l","a","n","o"," ","r","e","v","i","s","t","o"," ","p","o","r"," ",
               "J","o","a~","o"," ","S","i","l","v","a">>,
             {Found(<<<<"PER", 18, 28>>>>)})

\* 'Al Bo Cy Di': the port finds 'Bo Cy' and then 'Al Bo Cy Di' around it,
\* 'Al Bo' and then 'Bo Cy' across its end, or 'Al Bo Cy Di' and then 'Bo Cy'
\* inside it
TextNested ==
    TextCase(<<"A","l"," ","B","o"," ","C","y"," ","D","i">>,
             {Found(<<<<"PER", 3, 8>>, <<"PER", 0, 11>>>>),
              Found(<<<<"PER", 0, 5>>, <<"PER", 3, 8>>>>),
              Found(<<<<"PER", 0, 11>>, <<"PER", 3, 8>>>>)})

TextCases ==
    {TextCase(text, {Found(<<>>)}) : text \in ShortTexts}
        \cup {TextEmailName, TextTwoEmails, TextTwoNames, TextPlano, TextNested}

\* anonymizer.anonymize_text(text)
ScanText ==
    /\ ncalls < MaxTextCalls
    /\ \E c \in TextCases : AnonymizeTextFrom({c.text}, c.docs)

NextText == ScanText

SpecText == Init /\ [][NextText]_vars

(* ------------------- two or more calls of the classifier -------------- *)

\* classifier calls in a session
MaxScored == 2

\* 'email', 'f1', 'mail_tag', 'nome'
ScoreColumns ==
    {<<"e","m","a","i","l">>, <<"f","1">>, <<"m","a","i","l","_","t","a","g">>,
     <<"n","o","m","e">>}

\* ['a@b.co'], ['Al Bo', 'xyz'], [None, '']
ScoreSamples ==
    {<<<<"a","@","b",".","c","o">>>>,
     <<<<"A","l"," ","B","o">>, <<"x","y","z">>>>,
     <<None, <<>>>>}

\* the columns of the dicts given to detect_pii_columns: 'email', 'nome'
ScoreDetectColumns == {<<"e","m","a","i","l">>, <<"n","o","m","e">>}

\* the sub-scores an is_email_column call computes: none when the column is
\* excluded, the keyword score (in hundredths) alone when no valid sample is
\* left, else also the content score email_count / len(valid_samples)
EmailSubScores(column_name, sample_values) ==
    IF _is_excluded_column(column_name) THEN [branch |-> "excluded"]
    ELSE TheOne({
         IF sample_values = <<>> \/ valid_samples = <<>>
         THEN [branch |-> "keyword", keyword_score |-> keyword_score]
         ELSE [branch        |-> "blend",
               keyword_score |-> keyword_score,
               hits          |-> Count(valid_samples, EmailSampleHit),
               n             |-> Len(valid_samples)] :
         keyword_score \in {_calculate_keyword_score(column_name, email_keywords)},
         valid_samples \in {SelectSeq(sample_values, EmailValidSample)}})

\* the sub-scores an is_name_column call computes: as for is_email_column,
\* the content score being name_indicators / sample_limit
NameSubScores(self, column_name, sample_values, answers) ==
    IF _is_excluded_column(column_name) THEN [branch |-> "excluded"]
    ELSE TheOne({
         IF sample_values = <<>> \/ valid_samples = <<>>
         THEN [branch |-> "keyword", keyword_score |-> keyword_score]
         ELSE TheOne({
              [branch        |-> "blend",
               keyword_score |-> keyword_score,
               hits          |-> NameContentLoop(self,
                                                 SubSeq(valid_samples, 1, sample_limit),
                                                 answers, 1, 0).name_indicators,
               n             |-> sample_limit] :
              sample_limit \in {IF Len(valid_samples) < 20
                                THEN Len(valid_samples) ELSE 20}}) :
         keyword_score \in {_calculate_keyword_score(column_name, name_keywords)},
         valid_samples \in {SelectSeq(sample_values, NameValidSample)}})

\* the bookkeeping of a classifier call: as Returned, and the first call of op
\* with argument arg is kept with its return value and its sub-scores
Scored(op, arg, r, sub_scores) ==
    /\ threads' = threads
    /\ db' = db
    /\ ncalls' = ncalls + 1
    /\ call' = <<op, arg>>
    /\ ret' = r
    /\ first_ret' = IF ~Has(first_ret, <<op, arg>>)
                    THEN Put(first_ret, <<op, arg>>, [ret |-> r, sub_scores |-> sub_scores])
                    ELSE first_ret

ScoreEmail ==
    /\ ncalls < MaxScored
    /\ \E column_name \in ScoreColumns, sample_values \in ScoreSamples :
          \E r \in {is_email_column(Self, column_name, sample_values)} :
              /\ Commit(r.self)
              /\ Scored("is_email_column", <<column_name, sample_values>>, r.ret,
                        EmailSubScores(column_name, sample_values))

ScoreName ==
    /\ ncalls < MaxScored
    /\ \E column_name \in ScoreColumns, sample_values \in ScoreSamples :
          \E answers \in AnswersFor(sample_values) :
              \E r \in {is_name_column(Self, column_name, sample_values, answers)} :
                  /\ Commit(r.self)
                  /\ Scored("is_name_column", <<column_name, sample_values>>, r.ret,
                            NameSubScores(Self, column_name, sample_values, answers))

ScoreDetect ==
    /\ ncalls < MaxScored
    /\ DetectPiiColumnsFrom(OneColumnDicts(ScoreDetectColumns, ScoreSamples))

NextScore ==
    \/ ScoreEmail
    \/ ScoreName
    \/ ScoreDetect

SpecScore == Init /\ [][NextScore]_vars

(* ------------------- one call of a helper of the classifier ----------- *)

\* words of a text given to _looks_like_name
MaxWords == 6

\* 'email', 'mail', 'contact', 'correo', 'Nome', 'autor', 'user', 'f1', 'E/mail'
KeywordCores ==
    {<<"e","m","a","i","l">>, <<"m","a","i","l">>, <<"c","o","n","t","a","c","t">>,
     <<"c","o","r","r","e","o">>, <<"N","o","m","e">>, <<"a","u","t","o","r">>,
     <<"u","s","e","r">>, <<"f","1">>, <<"E/","m","a","i","l">>}

\* the column names: a core, alone, after 'x_', before '_x' or between them
KeywordColumns ==
    {pre \o core \o post : pre \in {<<>>, <<"x","_">>}, core \in KeywordCores,
                           post \in {<<>>, <<"_","x">>}}

\* the two dictionaries of __init__, by attribute name
KeywordDicts ==
    [email_keywords |-> email_keywords, name_keywords |-> name_keywords]

\* self._calculate_keyword_score(column_name, self.<dict>)
KeywordScore ==
    /\ ncalls = 0
    /\ \E column_name \in KeywordColumns, d \in DOMAIN KeywordDicts :
          /\ Commit(Self)
          /\ Returned("_calculate_keyword_score", <<column_name, d>>,
                      <<_calculate_keyword_score(column_name, KeywordDicts[d]), 100>>)

\* 'Al', 'bo', 'da', 'de'
NameWordPool == {<<"A","l">>, <<"b","o">>, <<"d","a">>, <<"d","e">>}

\* 'Al B0', 'Al Bo!', 'Al Lisboa', 'Al  van  Bo', 'Joa~o e Bo', 'Al Bo-Cy'
NameTextsExtra ==
    {<<"A","l"," ","B","0">>, <<"A","l"," ","B","o","!">>,
     <<"A","l"," ","L","i","s","b","o","a">>,
     <<"A","l"," "," ","v","a","n"," "," ","B","o">>,
     <<"J","o","a~","o"," ","e"," ","B","o">>,
     <<"A","l"," ","B","o","-","C","y">>}

\* the texts: up to MaxWords words of the pool joined by single spaces, and
\* the extra texts
NameTexts ==
    {JoinSpace(words) : words \in SeqsUpTo(NameWordPool, MaxWords)} \cup NameTextsExtra

\* self._looks_like_name(text)
LooksLikeName ==
    /\ ncalls = 0
    /\ \E text \in NameTexts :
          /\ Commit(Self)
          /\ Returned("_looks_like_name", text, _looks_like_name(text))

NextHelpers ==
    \/ LooksLikeName
    \/ KeywordScore

SpecHelpers == Init /\ [][NextHelpers]_vars

(* -------------------- sessions with a full recognition cache ---------- *)

\* calls made on the instance whose cache is nearly full
MaxCacheCalls == 2

DecimalDigits == <<"0", "1", "2", "3", "4", "5", "6", "7", "8", "9">>

\* str(i)
RECURSIVE Decimal(_)
Decimal(i) ==
    IF i < 10 THEN <<DecimalDigits[i + 1]>>
    ELSE Append(Decimal(i \div 10), DecimalDigits[(i % 10) + 1])

\* the i-th text the port was asked about: 'n1001', 'n1002', ...
NumText(i) == <<"n">> \o Decimal(1000 + i)

\* self._spacy_cache after _is_person_entity was called on the first n of
\* these texts, the port finding no person in any
FilledCache(n) == [i \in 1..n |-> <<NumText(i), FALSE>>]

\* one entry short of the limit, and at the limit
CacheFills == {SpacyCacheLimit - 1, SpacyCacheLimit}

\* the instance after these calls; calls are counted from here on
InitCache ==
    /\ name_mapping = <<>>
    /\ email_mapping = <<>>
    /\ stats = [k \in StatKeys |-> 0]
    /\ spacy_cache \in {FilledCache(n) : n \in CacheFills}
    /\ generated_names = <<>>
    /\ generated_emails = <<>>
    /\ ncalls = 0
    /\ call = <<"__init__", None>>
    /\ ret = None
    /\ first_ret = <<>>
    /\ threads = [t \in ThreadIds |-> IdleThread]
    /\ db = <<>>

\* 'abc def ghi', 'jkl mno pqr': not in the cache, long enough to be scanned
FreshTexts ==
    {<<"a","b","c"," ","d","e","f"," ","g","h","i">>,
     <<"j","k","l"," ","m","n","o"," ","p","q","r">>}

\* the fresh texts, the oldest text of the cache and its 201st text
CacheTexts == FreshTexts \cup {NumText(1), NumText(SpacyCacheEvict + 1)}

\* the bookkeeping of a call as in Returned; in these sessions first_ret is
\* the log of the port: <<text, answer>> for every self.nlp(text) made so
\* far, in order
PortLogged(op, arg, r, invoked) ==
    /\ threads' = threads
    /\ db' = db
    /\ ncalls' = ncalls + 1
    /\ call' = <<op, arg>>
    /\ ret' = r
    /\ first_ret' = first_ret \o invoked

\* self._is_person_entity(text): the port is invoked when text is not cached
CacheIsPerson ==
    /\ ncalls < MaxCacheCalls
    /\ \E text \in CacheTexts, answer \in PortAnswers :
          \E r \in {_is_person_entity(Self, text, answer)} :
              /\ Commit(r.self)
              /\ PortLogged("_is_person_entity", text, r.ret,
                            IF Has(spacy_cache, text) THEN <<>>
                            ELSE <<<<text, answer>>>>)

\* what the port does for a scanned text, as one of PortAnswers
DocAnswer(doc) ==
    IF doc.raised THEN "raise"
    ELSE IF \E i \in 1..Len(doc.ents) : doc.ents[i][1] = "PER" THEN "PER"
    ELSE "O"

\* no entity, a person over the first seven characters, a failing port
CacheDocs == {Found(<<>>), Found(<<<<"PER", 0, 7>>>>), Failed(<<>>)}

\* self.anonymize_text(text): self.nlp(text_str) is called for every text that
\* is scanned
CacheScanText ==
    /\ ncalls < MaxCacheCalls
    /\ \E text \in FreshTexts, doc \in CacheDocs, fake_email \in FakeEmails,
          fake_name \in FakeNames :
          \E r \in {anonymize_text(Self, text,
                                  [k \in 1..Len(text) |-> fake_email], doc,
                                  [k \in 1..Len(doc.ents) |-> fake_name])} :
              /\ Commit(r.self)
              /\ PortLogged("anonymize_text", <<text, doc>>,
                            [text |-> r.ret, replacements |-> r.replacements,
                             queued |-> r.queued],
                            IF TextPassThrough(text) THEN <<>>
                            ELSE <<<<Strip(text), DocAnswer(doc)>>>>)

\* 'f1'
CacheColumn == <<"f", "1">>

\* self.is_name_column('f1', [text]): _is_person_entity is called on the
\* stripped sample when it is valid and does not look like a name
CacheIsNameColumn ==
    /\ ncalls < MaxCacheCalls
    /\ \E text \in CacheTexts :
          \E answers \in AnswersFor(<<text>>) :
              \E r \in {is_name_column(Self, CacheColumn, <<text>>, answers)} :
                  /\ Commit(r.self)
                  /\ PortLogged("is_name_column", <<CacheColumn, <<text>>>>, r.ret,
                                IF /\ NameValidSample(text)
                                   /\ PortAsked(text)
                                   /\ ~Has(spacy_cache, Strip(text))
                                THEN <<<<Strip(text), answers[1]>>>>
                                ELSE <<>>)

\* self.clear_cache()
CacheClear ==
    /\ ncalls < MaxCacheCalls
    /\ Commit(clear_cache(Self))
    /\ PortLogged("clear_cache", None, None, <<>>)

NextCache ==
    \/ CacheScanText
    \/ CacheIsPerson
    \/ CacheIsNameColumn
    \/ CacheClear

SpecCache == InitCache /\ [][NextCache]_vars

(* ---------------------- the PostgreSQL driver ------------------------- *)

\* rows of the table of a session
MaxRows == 2

\* calls of the driver in a session
MaxDriverCalls == 2

\* PostgreSQLAnonymizer.__init__: sample_size
sample_size == 100

\* get_table_columns: the columns of the table besides id, 'nome', 'email',
\* 'notas'; db[i][c] is the value of row id i in column c, None for NULL
DriverColumns ==
    <<<<"n","o","m","e">>, <<"e","m","a","i","l">>, <<"n","o","t","a","s">>>>

\* the columns anonymize_text_columns selects: data_type = 'text'
DriverTextColumns == <<<<"n","o","t","a","s">>>>

ColumnIndex(column_name) ==
    CHOOSE c \in 1..Len(DriverColumns) : DriverColumns[c] = column_name

\* SELECT DISTINCT: the values of a sequence without repetitions, in the order
\* of their first occurrence
RECURSIVE Distinct(_)
Distinct(values) ==
    IF values = <<>> THEN <<>>
    ELSE LET rest == Distinct(SubSeq(values, 1, Len(values) - 1))
             last == values[Len(values)]
         IN  IF \E i \in 1..Len(rest) : rest[i] = last THEN rest
             ELSE Append(rest, last)

\* sample_column_data: for every column its distinct non-null values, at
\* most sample_size of them
sample_column_data(rows, columns) ==
    [c \in 1..Len(columns) |->
        <<columns[c],
          FirstItems(Distinct(SelectSeq([i \in 1..Len(rows) |-> rows[i][ColumnIndex(columns[c])]],
                                        LAMBDA v : v # None)),
                     sample_size)>>]

\* the ids of the rows SELECT ... WHERE column IS NOT NULL returns
NotNullIds(rows, c) ==
    SelectSeq([i \in 1..Len(rows) |-> i], LAMBDA i : rows[i][c] # None)

\* Python's == between a value of pii_columns and a str: a tuple
\* (pii_type, confidence_score), modelled as <<type, score>>, equals no str
PyEq(value, str) == Len(value) = Len(str) /\ value = str

\* the loop of _anonymize_column over the fetched rows ids, from the k-th on:
\* a row gets an UPDATE with what the Value Anonymizer returned when pii_type
\* == 'name' or pii_type == 'email', and is skipped otherwise
RECURSIVE AnonymizeColumnLoop(_, _, _, _, _, _, _, _)
AnonymizeColumnLoop(self, rows, c, pii_type, ids, k, fakes, updates) ==
    IF k > Len(ids)
    THEN [self |-> self, rows |-> rows, updates |-> updates]
    ELSE IF ~PyEq(pii_type, <<"n","a","m","e">>) /\ ~PyEq(pii_type, <<"e","m","a","i","l">>)
    THEN AnonymizeColumnLoop(self, rows, c, pii_type, ids, k + 1, fakes, updates)
    ELSE TheOne({
         AnonymizeColumnLoop(r.self, [rows EXCEPT ![ids[k]][c] = r.ret], c, pii_type,
                             ids, k + 1, fakes,
                             Append(updates, <<ids[k], DriverColumns[c], r.ret>>)) :
         r \in {IF PyEq(pii_type, <<"n","a","m","e">>)
                THEN anonymize_name(self, rows[ids[k]][c], fakes.name)
                ELSE anonymize_email(self, rows[ids[k]][c], fakes.email)}})

\* fakes.name, fakes.email: what every generator call of the driver call
\* returns; the count returned is len(rows)
_anonymize_column(self, rows, column_name, pii_type, fakes) ==
    TheOne({
        [self |-> loop.self, rows |-> loop.rows, updates |-> loop.updates,
         ret |-> Len(NotNullIds(rows, ColumnIndex(column_name)))] :
        loop \in {AnonymizeColumnLoop(self, rows, ColumnIndex(column_name), pii_type,
                                      NotNullIds(rows, ColumnIndex(column_name)), 1,
                                      fakes, <<>>)}})

\* the loop of anonymize_all over pii_columns.items(), from the j-th on: the
\* value of an item is the pair detect_pii_columns stored for the column.
\* counts lists <<column, pii_type, count>> as printed
RECURSIVE AnonymizeAllLoop(_, _, _, _, _, _, _)
AnonymizeAllLoop(self, rows, pii_columns, j, fakes, counts, updates) ==
    IF j > Len(pii_columns)
    THEN [self |-> self, rows |-> rows, counts |-> counts, updates |-> updates]
    ELSE TheOne({
         AnonymizeAllLoop(r.self, r.rows, pii_columns, j + 1, fakes,
                          Append(counts, <<pii_columns[j][1], pii_columns[j][2], r.ret>>),
                          updates \o r.updates) :
         r \in {_anonymize_column(self, rows, pii_columns[j][1], pii_columns[j][2],
                                  fakes)}})

RECURSIVE SumCounts(_)
SumCounts(counts) ==
    IF counts = <<>> THEN 0
    ELSE counts[Len(counts)][3] + SumCounts(SubSeq(counts, 1, Len(counts) - 1))

\* anonymize_all on the one table: answers are the port's answers for the
\* samples of each column
anonymize_all(self, rows, answers, fakes) ==
    TheOne({
        TheOne({
            [self |-> loop.self, rows |-> loop.rows, pii_columns |-> d.ret,
             counts |-> loop.counts, updates |-> loop.updates,
             total_anonymized |-> SumCounts(loop.counts)] :
            loop \in {AnonymizeAllLoop(d.self, rows, d.ret, 1, fakes, <<>>, <<>>)}}) :
        d \in {detect_pii_columns(self, sample_column_data(rows, DriverColumns), answers)}})

\* ' abc def ghi ', 'abc def ghi', 'a@b.co Al Bo'
TextPadded == <<" ","a","b","c"," ","d","e","f"," ","g","h","i"," ">>

TextPlain == <<"a","b","c"," ","d","e","f"," ","g","h","i">>

TextWithPii == <<"a","@","b",".","c","o"," ","A","l"," ","B","o">>

\* what the port does for a text of column notas: it fails, or it finds the
\* person of 'a@b.co Al Bo' and nothing in any other text
PortDoc(failing, text) ==
    IF failing THEN Failed(<<>>)
    ELSE IF Strip(text) = TextWithPii THEN Found(<<<<"PER", 7, 12>>>>)
    ELSE Found(<<>>)

\* the loop of _anonymize_text_column over the fetched row ids, from the k-th
\* on; failing tells whether the port fails. An update is kept with the
\* replacements anonymize_text applied to the row
RECURSIVE AnonymizeTextColumnLoop(_, _, _, _, _, _, _, _)
AnonymizeTextColumnLoop(self, rows, c, ids, k, failing, fakes, updates) ==
    IF k > Len(ids)
    THEN [self |-> self, rows |-> rows, updates |-> updates, ret |-> Len(updates)]
    ELSE IF rows[ids[k]][c] = <<>>
    THEN AnonymizeTextColumnLoop(self, rows, c, ids, k + 1, failing, fakes, updates)
    ELSE TheOne({
         IF r.ret # original_text
         THEN AnonymizeTextColumnLoop(r.self, [rows EXCEPT ![ids[k]][c] = r.ret], c, ids,
                                      k + 1, failing, fakes,
                                      Append(updates,
                                             [id |-> ids[k], new_text |-> r.ret,
                                              replacements |-> r.replacements]))
         ELSE AnonymizeTextColumnLoop(r.self, rows, c, ids, k + 1, failing, fakes, updates) :
         original_text \in {rows[ids[k]][c]},
         r \in {anonymize_text(self, rows[ids[k]][c],
                               [n \in 1..Len(rows[ids[k]][c]) |-> fakes.email],
                               PortDoc(failing, rows[ids[k]][c]),
                               [n \in 1..Len(PortDoc(failing, rows[ids[k]][c]).ents) |-> fakes.name])}})

_anonymize_text_column(self, rows, column_name, failing, fakes) ==
    AnonymizeTextColumnLoop(self, rows, ColumnIndex(column_name),
                            NotNullIds(rows, ColumnIndex(column_name)), 1, failing, fakes,
                            <<>>)

\* the rows a table is made of: nome, email, notas
DriverRows ==
    {<<<<"A","l"," ","B","o">>, <<"a","@","b",".","c","o">>, TextPadded>>,
     <<<<"C","y"," ","D","i">>, <<"x","y","z">>, TextWithPii>>,
     <<None, None, TextPlain>>,
     <<<<" ">>, <<"a","@","b",".","c","o">>, None>>}

DriverTables == UNION {[1..n -> DriverRows] : n \in 1..MaxRows}

DriverFakes == {[name |-> n, email |-> e] : n \in FakeNames, e \in FakeEmails}

\* PostgreSQLAnonymizer.__init__ on a database whose table has these rows
InitDriver ==
    /\ name_mapping = <<>>
    /\ email_mapping = <<>>
    /\ stats = [k \in StatKeys |-> 0]
    /\ spacy_cache = <<>>
    /\ generated_names = <<>>
    /\ generated_emails = <<>>
    /\ ncalls = 0
    /\ call = <<"__init__", None>>
    /\ ret = None
    /\ first_ret = <<>>
    /\ threads = [t \in ThreadIds |-> IdleThread]
    /\ db \in DriverTables

\* the bookkeeping of a driver call that leaves rows in the table
DriverReturned(op, arg, r, rows) ==
    /\ threads' = threads
    /\ first_ret' = first_ret
    /\ ncalls' = ncalls + 1
    /\ call' = <<op, arg>>
    /\ ret' = r
    /\ db' = rows

AnonymizeTextColumns ==
    /\ ncalls < MaxDriverCalls
    /\ \E failing \in BOOLEAN, fakes \in DriverFakes :
          \E r \in {_anonymize_text_column(Self, db, DriverTextColumns[1], failing, fakes)} :
              /\ Commit(r.self)
              /\ DriverReturned("anonymize_text_columns", DriverTextColumns[1],
                                [processed |-> r.ret, updates |-> r.updates], r.rows)

AnonymizeAll ==
    /\ ncalls < MaxDriverCalls
    /\ \E answers \in ColumnAnswersFor(sample_column_data(db, DriverColumns), 1),
          fakes \in DriverFakes :
          \E r \in {anonymize_all(Self, db, answers, fakes)} :
              /\ Commit(r.self)
              /\ DriverReturned("anonymize_all", None,
                                [pii_columns |-> r.pii_columns, counts |-> r.counts,
                                 updates |-> r.updates,
                                 total_anonymized |-> r.total_anonymized], r.rows)

NextDriver ==
    \/ AnonymizeTextColumns
    \/ AnonymizeAll

SpecDriver == InitDriver /\ [][NextDriver]_vars

(* ----------------------- properties of a session ---------------------- *)

\* the calls of operation op made so far, as their arguments
CalledWith(op) == {c[2] : c \in {k \in Keys(first_ret) : k[1] = op}}

\* the value the first call of op with argument v returned
FirstReturn(op, v) == Get(first_ret, <<op, v>>)

\* a name with its leading, trailing and repeated inner whitespace removed
Squeezed(v) == JoinSpace(Split(v))

\* C1: a repeated anonymize_name call returns what the first call for that
\* name returned, whatever was called in between, and two names that differ
\* only in leading, trailing or repeated inner whitespace return the same
\* value and share one entry of name_mapping.
C1_NameRepeatable ==
    /\ call[1] = "anonymize_name" => ret = FirstReturn("anonymize_name", call[2])
    /\ \A v1, v2 \in CalledWith("anonymize_name") :
          Squeezed(v1) = Squeezed(v2) /\ Len(Squeezed(v1)) >= 2
              => /\ FirstReturn("anonymize_name", v1) = FirstReturn("anonymize_name", v2)
                 /\ Cardinality({i \in 1..Len(name_mapping) :
                                    name_mapping[i][1] = Squeezed(v1)}) = 1
                 /\ Get(name_mapping, Squeezed(v1)) = FirstReturn("anonymize_name", v1)

\* C1 witness: ' Al  Bo ' is anonymized after 'Al Bo' and a clear_cache, and
\* returns the value that 'Al Bo' got
C1_Witness ==
    /\ call = <<"anonymize_name", <<" ","A","l"," "," ","B","o"," ">>>>
    /\ <<"A","l"," ","B","o">> \in CalledWith("anonymize_name")
    /\ stats["cache_clears"] = 1
    /\ stats["total_name_operations"] = 2
    /\ ret = FirstReturn("anonymize_name", <<"A","l"," ","B","o">>)

\* C2: anonymize_email returns the same synthetic email for all inputs that
\* are the same address once trimmed and lower-cased; the keys of
\* email_mapping are trimmed, lower-cased addresses, and the generator is
\* asked for a value only when an entry is created, never on a hit.
C2_EmailRepeatable ==
    /\ call[1] = "anonymize_email" => ret = FirstReturn("anonymize_email", call[2])
    /\ \A v1, v2 \in CalledWith("anonymize_email") :
          Lower(Strip(v1)) = Lower(Strip(v2))
              => /\ FirstReturn("anonymize_email", v1) = FirstReturn("anonymize_email", v2)
                 /\ Cardinality({i \in 1..Len(email_mapping) :
                                    email_mapping[i][1] = Lower(Strip(v1))}) = 1
                 /\ Get(email_mapping, Lower(Strip(v1))) = FirstReturn("anonymize_email", v1)
    /\ \A i \in 1..Len(email_mapping) :
          email_mapping[i][1] = Lower(Strip(email_mapping[i][1]))
    /\ Len(generated_emails) = Len(email_mapping)

\* C2 witness: ' A@B.co ' is anonymized after 'a@b.co'; the generator has been
\* asked once and both calls returned its value
C2_Witness ==
    /\ call = <<"anonymize_email", <<" ","A","@","B",".","c","o"," ">>>>
    /\ <<"a","@","b",".","c","o">> \in CalledWith("anonymize_email")
    /\ Len(generated_emails) = 1
    /\ stats["total_email_operations"] = 2
    /\ ret = FirstReturn("anonymize_email", <<"a","@","b",".","c","o">>)

\* every entry of the mapping d is in d2 with the same value
Preserved(d, d2) ==
    \A i \in 1..Len(d) : Has(d2, d[i][1]) /\ Get(d2, d[i][1]) = d[i][2]

\* C3: no step of any operation removes an entry of name_mapping or
\* email_mapping or changes its synthetic value, and clear_cache empties the
\* recognition cache and leaves both mappings as they are.
C3_EntriesKept ==
    [][/\ Preserved(name_mapping, name_mapping')
       /\ Preserved(email_mapping, email_mapping')
       /\ call'[1] = "clear_cache"
             => /\ spacy_cache' = <<>>
                /\ name_mapping' = name_mapping
                /\ email_mapping' = email_mapping]_vars

\* C3 witness: clear_cache has run on an instance that holds a name entry, an
\* email entry and has classified a column
C3_Witness ==
    /\ call[1] = "clear_cache"
    /\ name_mapping # <<>>
    /\ email_mapping # <<>>
    /\ stats["name_detection_attempts"] = 1
    /\ spacy_cache = <<>>

(* -------------------- properties of the two anonymizers --------------- *)

\* None, '' or only whitespace
BlankName(v) == v = None \/ \A i \in 1..Len(v) : v[i] \in Whitespace

\* None, '', without '@', or not an address of the email grammar once trimmed
\* and lower-cased
NotAnAddress(v) ==
    \/ v = None
    \/ v = <<>>
    \/ \A i \in 1..Len(v) : v[i] # "@"
    \/ ~EmailFullMatch(Lower(Strip(v)))

\* C4: a call of anonymize_name with None, '' or an all-whitespace string, or
\* of anonymize_email with None, '', a string without '@' or a string that is
\* not an address of the email grammar, returns its argument and leaves both
\* mappings and every statistics counter unchanged.
C4_InvalidPassThrough ==
    [][(\/ call'[1] = "anonymize_name" /\ BlankName(call'[2])
        \/ call'[1] = "anonymize_email" /\ NotAnAddress(call'[2]))
          => /\ ret' = call'[2]
             /\ name_mapping' = name_mapping
             /\ email_mapping' = email_mapping
             /\ generated_names' = generated_names
             /\ generated_emails' = generated_emails
             /\ stats' = stats]_vars

\* C4 witness: '.a@b.co', which has an '@' but is no address of the grammar,
\* is returned as it is by an instance that holds an email entry and has
\* passed a whitespace name through
C4_Witness ==
    /\ call = <<"anonymize_email", <<".","a","@","b",".","c","o">>>>
    /\ ret = <<".","a","@","b",".","c","o">>
    /\ <<" "," ">> \in CalledWith("anonymize_name")
    /\ FirstReturn("anonymize_name", <<" "," ">>) = <<" "," ">>
    /\ Len(email_mapping) = 1
    /\ stats["total_email_operations"] = 1

\* characters of the local part of a synthetic email: [a-z0-9._+-]
SafeLocalChars == AsciiLower \cup Digit \cup {".", "_", "+", "-"}

\* exactly one '@', a local part of safe characters that neither starts nor
\* ends with '.'
ValidSynthetic(e) ==
    LET ats   == {i \in 1..Len(e) : e[i] = "@"}
        at    == CHOOSE i \in ats : TRUE
        local == SubSeq(e, 1, at - 1)
    IN  /\ Cardinality(ats) = 1
        /\ \A i \in 1..Len(local) : local[i] \in SafeLocalChars
        /\ local # <<>> => local[1] # "." /\ local[Len(local)] # "."

\* C5: for a valid input email and any email the generator returns, the value
\* anonymize_email stores and returns has exactly one '@' and a local part
\* made of [a-z0-9._+-] that neither starts nor ends with '.'.
C5_SyntheticEmailValid ==
    /\ \A i \in 1..Len(email_mapping) : ValidSynthetic(email_mapping[i][2])
    /\ call[1] = "anonymize_email" => ValidSynthetic(ret)

\* C5 witness: the generator returned '.B@m.pt' and the call returned 'b@m.pt'
C5_Witness ==
    /\ call[1] = "anonymize_email"
    /\ generated_emails = << <<".","B","@","m",".","p","t">> >>
    /\ ret = <<"b","@","m",".","p","t">>
    /\ email_mapping[1][2] = ret

C7_OneValuePerOriginal ==
    \A t1, t2 \in ThreadIds :
        (/\ t1 # t2
         /\ threads[t1].pc = "done"
         /\ threads[t2].pc = "done"
         /\ threads[t1].op = threads[t2].op
         /\ threads[t1].arg = threads[t2].arg
         /\ threads[t1].key # None)
            => /\ threads[t1].ret = threads[t2].ret
               /\ Cardinality({t \in {t1, t2} : threads[t].val # None}) = 1

(* ---------------------- properties of the classifier ------------------ *)

\* the lower-cased, accent-stripped column name contains an exclusion keyword
NameOfExcluded(column_name) ==
    \E lowered \in {_normalize_text(column_name)} :
        \E kw \in exclusion_keywords :
            \E i \in 0..Len(lowered) :
                i + Len(kw) <= Len(lowered) /\ SubSeq(lowered, i + 1, i + Len(kw)) = kw

Where(s, P(_)) == SelectSeq(s, P)

\* a sample is_email_column counts: a non-empty string that is not all whitespace
CountedForEmail(v) ==
    v # None /\ \E i \in 1..Len(v) : v[i] \notin Whitespace

\* a sample is_name_column counts: a string of 3 to 150 characters once trimmed
CountedForName(v) ==
    v # None /\ Len(Strip(v)) >= 3 /\ Len(Strip(v)) <= 150

IsAddress(v) == EmailFullMatch(Strip(v))

SeemsName(v) == _looks_like_name(Strip(v))

\* C9: for a column that is not excluded and has at least one valid sample,
\* is_email_column returns keyword_score * 0.4 + content_score * 0.6 and
\* is_name_column returns keyword_score * 0.35 + content_score * 0.65, where
\* content_score is the share of valid samples that are emails, resp. that
\* look like a name or are recognised as a person; the column is accepted
\* exactly when that confidence is at least the threshold 0.6.
\* Keyword scores are in hundredths, confidences are fractions.
C9_BlendAndThreshold ==
    /\ call[1] = "is_email_column" /\ ~NameOfExcluded(call[2][1])
          => \A valid \in {Where(call[2][2], CountedForEmail)},
                ks \in {_calculate_keyword_score(call[2][1], email_keywords)} :
                 \A n \in {Len(valid)}, hits \in {Len(Where(valid, IsAddress))} :
                     n >= 1 => /\ Same(ret[2], <<40 * ks * n + 6000 * hits, 10000 * n>>)
                               /\ ret[1] <=> Geq(ret[2], <<6, 10>>)
    /\ call[1] = "is_name_column" /\ ~NameOfExcluded(call[2][1])
          => \A valid \in {Where(call[2][2], CountedForName)},
                ks \in {_calculate_keyword_score(call[2][1], name_keywords)} :
                 \A n \in {Len(valid)}, seem \in {Len(Where(valid, SeemsName))} :
                     n >= 1 => /\ \E hits \in seem..n :
                                     Same(ret[2], <<35 * ks * n + 6500 * hits, 10000 * n>>)
                               /\ ret[1] <=> Geq(ret[2], <<6, 10>>)

\* C9 witness: is_email_column('email', ['a@b.co', 'xyz', 'ab']) has keyword
\* score 1.0 and content score 1/3: the confidence is exactly 0.6 and the
\* column is accepted
C9_Witness ==
    /\ call = <<"is_email_column",
                <<<<"e","m","a","i","l">>,
                  <<<<"a","@","b",".","c","o">>, <<"x","y","z">>, <<"a","b">>>>>>>>
    /\ Same(ret[2], <<6, 10>>)
    /\ ret[1] = TRUE

\* the types detect_pii_columns evaluated for a column, in order
TypesTried(column_name) ==
    LET tried == SelectSeq(ret.trace, LAMBDA e : e[1] = column_name)
    IN  [j \in 1..Len(tried) |-> tried[j][2]]

\* the priority order of the types
TypePriority == <<"email", "phone", "name">>

\* C10: detect_pii_columns reports at most one type per column and evaluates
\* the types of a column in the order email, phone, name, stopping at the
\* first type that accepts the column, which is the type it reports.
C10_EmailPhoneName ==
    call[1] = "detect_pii_columns"
        => \A i \in 1..Len(call[2]) :
               LET column_name == call[2][i][1]
                   tried == TypesTried(column_name)
               IN  /\ Len(tried) <= Len(TypePriority)
                   /\ \A j \in 1..Len(tried) : tried[j] = TypePriority[j]
                   /\ Cardinality({k \in 1..Len(ret.pii_columns) :
                                      ret.pii_columns[k][1] = column_name}) <= 1
                   /\ Has(ret.pii_columns, column_name)
                         => Get(ret.pii_columns, column_name)[1] = tried[Len(tried)]

(* --------------- properties of the classifier: special columns -------- *)

\* a sample that is null or the empty string
BlankSample(v) == v = None \/ v = <<>>

\* nothing is left of the samples once nulls and empty strings are filtered out
AllBlank(sample_values) ==
    \A j \in 1..Len(sample_values) : BlankSample(sample_values[j])

\* C11: when no sample of a column is left after filtering out nulls and
\* empty strings, the column (not excluded by its name) is classified by its
\* keyword score alone: is_email_column and is_name_column return
\* (keyword_score >= 0.6, keyword_score), and detect_pii_columns reports the
\* column exactly when its email or its name keyword score is at least 0.6,
\* as email if the email keyword score is, else as name.
\* Keyword scores are in hundredths.
C11_KeywordOnlyFallback ==
    /\ call[1] = "is_email_column" /\ AllBlank(call[2][2]) /\ ~NameOfExcluded(call[2][1])
          => \A ks \in {_calculate_keyword_score(call[2][1], email_keywords)} :
                 /\ ret[1] <=> ks >= 60
                 /\ Same(ret[2], <<ks, 100>>)
    /\ call[1] = "is_name_column" /\ AllBlank(call[2][2]) /\ ~NameOfExcluded(call[2][1])
          => \A ks \in {_calculate_keyword_score(call[2][1], name_keywords)} :
                 /\ ret[1] <=> ks >= 60
                 /\ Same(ret[2], <<ks, 100>>)
    /\ call[1] = "detect_pii_columns"
          => \A i \in 1..Len(call[2]) :
                 AllBlank(call[2][i][2]) /\ ~NameOfExcluded(call[2][i][1])
                     => \A ke \in {_calculate_keyword_score(call[2][i][1], email_keywords)},
                           kn \in {_calculate_keyword_score(call[2][i][1], name_keywords)} :
                            /\ Has(ret.pii_columns, call[2][i][1]) <=> (ke >= 60 \/ kn >= 60)
                            /\ ke >= 60
                                  => Get(ret.pii_columns, call[2][i][1])[1] = "email"
                            /\ ke < 60 /\ kn >= 60
                                  => Get(ret.pii_columns, call[2][i][1])[1] = "name"

\* the phone keywords of the column names the tests use
PhoneKeywords ==
    {<<"p","h","o","n","e">>, <<"t","e","l","e","p","h","o","n","e">>,
     <<"t","e","l","e","f","o","n","e">>, <<"m","o","b","i","l","e">>,
     <<"c","e","l","u","l","a","r">>, <<"w","h","a","t","s","a","p","p">>}

HasPhoneKeyword(column_name) ==
    \E lowered \in {_normalize_text(column_name)} :
        \E kw \in PhoneKeywords : Contains(lowered, kw)

\* the characters of a phone number
PhoneChars == Digit \cup {"+", "(", ")", " ", "-"}

\* a phone number: digits with an optional leading '+', parentheses, spaces
\* and hyphens; 6 to 15 digits (country code, area code, subscriber number)
MatchesPhoneGrammar(v) ==
    /\ v # None
    /\ \A j \in 1..Len(v) : v[j] \in PhoneChars /\ (v[j] = "+" => j = 1)
    /\ Cardinality({j \in 1..Len(v) : v[j] \in Digit}) \in 6..15

\* C12: a column whose name contains a phone keyword and whose samples all
\* match the phone grammar is reported by detect_pii_columns, with type phone.
C12_PhoneColumnReported ==
    call[1] = "detect_pii_columns"
        => \A i \in 1..Len(call[2]) :
               (/\ HasPhoneKeyword(call[2][i][1])
                /\ call[2][i][2] # <<>>
                /\ \A j \in 1..Len(call[2][i][2]) : MatchesPhoneGrammar(call[2][i][2][j]))
                   => /\ Has(ret.pii_columns, call[2][i][1])
                      /\ Get(ret.pii_columns, call[2][i][1])[1] = "phone"

\* the normalized column name contains a keyword of the name dictionary
HasNameKeyword(column_name) ==
    \E lowered \in {_normalize_text(column_name)} :
        \E kw \in name_keywords : Contains(lowered, kw[1])

\* C14: is_name_column accepts every column whose name contains a keyword of
\* the name dictionary and whose samples (at least one) all pass the
\* name-likeness heuristic.
C14_NameKeywordColumnAccepted ==
    (/\ call[1] = "is_name_column"
     /\ HasNameKeyword(call[2][1])
     /\ call[2][2] # <<>>
     /\ \A j \in 1..Len(call[2][2]) : call[2][2][j] # None /\ SeemsName(call[2][2][j]))
        => ret[1] = TRUE

(* ------------------------- properties of phones ----------------------- *)

\* C13: anonymize_phone returns, for every valid phone value, a value that
\* keeps the format of the original: parentheses if the original has
\* parentheses, a leading '+' if the original starts with '+', spaces if the
\* original has spaces.
C13_PhoneFormatPreserved ==
    call[1] = "anonymize_phone" /\ MatchesPhoneGrammar(call[2])
        => /\ ret # AttributeError
           /\ HasChar(call[2], "(") => HasChar(ret, "(") /\ HasChar(ret, ")")
           /\ call[2][1] = "+" => ret[1] = "+"
           /\ HasChar(call[2], " ") => HasChar(ret, " ")

(* ---------------------- properties of the text scanner ---------------- *)

\* the text of the last anonymize_text call is not scanned: it is not a
\* string, or fewer than 10 characters are left once it is trimmed
TooShortToScan(text) == text \in NotStr \/ Len(Strip(text)) < 10

\* C15: anonymize_text returns its argument as it is, and changes neither the
\* mapping tables nor any counter (nor the cache, nor asks the generator),
\* when the argument is None, empty, not a string, or shorter than 10
\* characters once trimmed.
C15_ShortTextUntouched ==
    [][call'[1] = "anonymize_text" /\ TooShortToScan(call'[2][1])
          => /\ ret'.text = call'[2][1]
             /\ ret'.replacements = <<>>
             /\ name_mapping' = name_mapping
             /\ email_mapping' = email_mapping
             /\ stats' = stats
             /\ spacy_cache' = spacy_cache
             /\ generated_names' = generated_names
             /\ generated_emails' = generated_emails]_vars

\* C15 witness: '  a@b.co   ' has 11 characters, 6 once trimmed; it is
\* returned unchanged by the second call although the first call mapped
\* a@b.co
C15_Witness ==
    /\ ncalls = 2
    /\ call[1] = "anonymize_text"
    /\ call[2][1] = <<" "," ","a","@","b",".","c","o"," "," "," ">>
    /\ Len(call[2][1]) >= 10
    /\ Has(email_mapping, <<"a","@","b",".","c","o">>)
    /\ stats["total_email_operations"] = 1
    /\ ret.text = call[2][1]

\* a sequence in reverse order
Reverse(s) == [i \in 1..Len(s) |-> s[Len(s) + 1 - i]]

\* text_str from offset from on, with the spans, given in text order, replaced
\* by their replacements and everything between them kept
RECURSIVE Rebuild(_, _, _)
Rebuild(text_str, spans, from) ==
    IF spans = <<>> THEN SubSeq(text_str, from + 1, Len(text_str))
    ELSE SubSeq(text_str, from + 1, spans[1][1]) \o spans[1][4]
             \o Rebuild(text_str, Tail(spans), spans[1][2])

\* spans, in text order, of which no two overlap
Disjoint(spans) == \A i \in 1..(Len(spans) - 1) : spans[i][2] <= spans[i + 1][1]

\* C16: the replacement spans of a scanned text lie in the trimmed text, each
\* over the original it replaces, and are applied by start offset descending;
\* when no two of them overlap, the returned string is the trimmed text with
\* each span [start, end) replaced by its replacement and every character
\* outside the spans kept in order.
C16_SpansApplied ==
    call[1] = "anonymize_text" /\ ~TooShortToScan(call[2][1])
        => \A text_str \in {Strip(call[2][1])}, spans \in {Reverse(ret.replacements)} :
               /\ \A i \in 1..Len(spans) :
                      /\ 0 <= spans[i][1]
                      /\ spans[i][1] < spans[i][2]
                      /\ spans[i][2] <= Len(text_str)
                      /\ SubSeq(text_str, spans[i][1] + 1, spans[i][2]) = spans[i][3]
               /\ \A i \in 1..(Len(spans) - 1) : spans[i][1] <= spans[i + 1][1]
               /\ Disjoint(spans) => ret.text = Rebuild(text_str, spans, 0)

\* C16 witness: 'a@b.co Al Bo' becomes 'x.y@m.pt Xu Yi': the email span, whose
\* replacement is longer, lies before the name span
C16_Witness ==
    /\ call[1] = "anonymize_text"
    /\ call[2][1] = <<"a","@","b",".","c","o"," ","A","l"," ","B","o">>
    /\ Len(ret.replacements) = 2
    /\ ret.replacements[2][1] = 0
    /\ Len(ret.replacements[2][4]) > Len(ret.replacements[2][3])
    /\ ret.text = <<"x",".","y","@","m",".","p","t"," ","X","u"," ","Y","i">>

\* the email spans of a text: for every match of the email pattern that the
\* mapping does not map to itself, the span that replaces it by its mapping
EmailSpans(text_str, mapping) ==
    {<<m[1] - 1, m[2], SubSeq(text_str, m[1], m[2]),
       Get(mapping, Lower(SubSeq(text_str, m[1], m[2])))>> :
        m \in {EmailFindIter(text_str, 1)[k] : k \in 1..Len(EmailFindIter(text_str, 1))}}

\* the name spans of the entities handled before the failure: the persons
\* that look like a name, each replaced by its mapping
NameSpans(text_str, ents, mapping) ==
    {<<e[2], e[3], SubSeq(text_str, e[2] + 1, e[3]),
       Get(mapping, SubSeq(text_str, e[2] + 1, e[3]))>> :
        e \in {ents[k] : k \in {j \in 1..Len(ents) :
                   /\ ents[j][1] = "PER"
                   /\ _looks_like_name(SubSeq(text_str, ents[j][2] + 1, ents[j][3]))}}}

\* C17: when the recognition port raises during anonymize_text of a scanned
\* text, the call returns a text: spacy_errors grows by one, the email spans
\* and the name spans queued before the failure are all applied, and
\* text_replacements grows by the number of spans applied.
C17_PortFailureTolerated ==
    [][call'[1] = "anonymize_text" /\ ~TooShortToScan(call'[2][1]) /\ call'[2][2].raised
          => \A text_str \in {Strip(call'[2][1])} :
                 /\ stats'["spacy_errors"] = stats["spacy_errors"] + 1
                 /\ \A span \in EmailSpans(text_str, email_mapping')
                               \cup NameSpans(text_str, call'[2][2].ents, name_mapping') :
                        span[3] # span[4]
                            => \E i \in 1..Len(ret'.replacements) :
                                   ret'.replacements[i] = span
                 /\ ret'.text = Rebuild(text_str, Reverse(ret'.replacements), 0)
                 /\ stats'["text_replacements"]
                        = stats["text_replacements"] + Len(ret'.replacements)]_vars

\* C17 witness: the block raises after 'Al Bo' of 'a@b.co Al Bo' was queued;
\* the call returns 'x.y@m.pt Xu Yi' and counts one error
C17_Witness ==
    /\ call[1] = "anonymize_text"
    /\ call[2] = <<TextEmailName.text, Failed(<<<<"PER", 7, 12>>>>)>>
    /\ stats["spacy_errors"] = 1
    /\ stats["text_replacements"] = 2
    /\ ret.text = <<"x",".","y","@","m",".","p","t"," ","X","u"," ","Y","i">>

(* ------------------ properties of a session, continued ---------------- *)

\* C18: within a session, when the recognition port does for a text what it
\* did before, anonymize_text returns for that text what its first call
\* returned, whatever was anonymized or called in between.
C18_TextRepeatable ==
    call[1] = "anonymize_text"
        => ret.text = FirstReturn("anonymize_text", call[2]).text

\* C18 witness: the third call scans ' Al Bo a@b.co ' with the port finding
\* 'Al Bo', as the first call did; another anonymization was made in between;
\* name and email are replaced as in the first call
C18_Witness ==
    /\ ncalls = 3
    /\ call[1] = "anonymize_text"
    /\ call[2][2] = [raised |-> FALSE, ents |-> <<<<"PER", 0, 5>>>>]
    /\ first_ret[1][1] = call
    /\ Len(first_ret) >= 2
    /\ Len(ret.replacements) = 2
    /\ ret.text = first_ret[1][2].text

\* the session so far is made of anonymize_name and anonymize_email calls
\* followed by calls of get_statistics
OnlyValuesAnonymized ==
    /\ \A k \in Keys(first_ret) : k[1] \in {"anonymize_name", "anonymize_email"}
    /\ stats["name_detection_attempts"] = 0
    /\ stats["email_detection_attempts"] = 0

\* the distinct original names, and emails, anonymized so far
DistinctNames == {Squeezed(v) : v \in CalledWith("anonymize_name")}

DistinctEmails == {Lower(Strip(v)) : v \in CalledWith("anonymize_email")}

\* C19: after anonymize_name and anonymize_email calls the statistics
\* snapshot has an entry total_names_anonymized, the number of distinct
\* original names anonymized so far, an entry total_emails_anonymized, the
\* number of distinct original emails, and a section sample_mappings.
C19_SnapshotTotals ==
    call[1] = "get_statistics" /\ OnlyValuesAnonymized
        => /\ "total_names_anonymized" \in DOMAIN ret
           /\ ret["total_names_anonymized"] = Cardinality(DistinctNames)
           /\ "total_emails_anonymized" \in DOMAIN ret
           /\ ret["total_emails_anonymized"] = Cardinality(DistinctEmails)
           /\ "sample_mappings" \in DOMAIN ret

(* ------------------ properties of the classifier: scores -------------- *)

\* the classifier calls kept with their sub-scores
ScoredCalls == {first_ret[i] : i \in 1..Len(first_ret)}

\* the confidence a kept call returned
ConfidenceOf(c) == c[2].ret[2]

\* the keyword score of a kept call, in hundredths
KeywordScoreOf(c) == c[2].sub_scores.keyword_score

\* the content score of a kept call that blended the two sub-scores
ContentScoreOf(c) == <<c[2].sub_scores.hits, c[2].sub_scores.n>>

\* two calls of the same classifier that blended a keyword score and a
\* content score
BothBlended(a, b) ==
    /\ a[1][1] = b[1][1]
    /\ a[2].sub_scores.branch = "blend"
    /\ b[2].sub_scores.branch = "blend"

\* two calls of the same classifier that had the keyword score alone
BothKeywordOnly(a, b) ==
    /\ a[1][1] = b[1][1]
    /\ a[2].sub_scores.branch = "keyword"
    /\ b[2].sub_scores.branch = "keyword"

\* every column detect_pii_columns reports has a confidence of at least the
\* threshold: a column below the threshold is not reported
ReportedAboveThreshold ==
    call[1] = "detect_pii_columns"
        => \A i \in 1..Len(ret.pii_columns) :
               Geq(ret.pii_columns[i][2][2], confidence_threshold)

\* C20: for any two calls of is_email_column, or of is_name_column, that
\* computed both sub-scores: with the same content score, the call with the
\* higher keyword score returned no lower confidence; with the same keyword
\* score, the call with the higher content score returned no lower
\* confidence. Of two calls that had the keyword score alone, the one with
\* the higher keyword score returned no lower confidence. A classifier
\* accepts exactly when its confidence is at least the threshold, and
\* detect_pii_columns reports no column whose confidence is below it.
C20_ConfidenceMonotone ==
    /\ \A a, b \in ScoredCalls :
           /\ BothBlended(a, b)
                 => /\ (/\ Same(ContentScoreOf(a), ContentScoreOf(b))
                        /\ KeywordScoreOf(a) <= KeywordScoreOf(b))
                           => Geq(ConfidenceOf(b), ConfidenceOf(a))
                    /\ (/\ KeywordScoreOf(a) = KeywordScoreOf(b)
                        /\ Geq(ContentScoreOf(b), ContentScoreOf(a)))
                           => Geq(ConfidenceOf(b), ConfidenceOf(a))
           /\ (BothKeywordOnly(a, b) /\ KeywordScoreOf(a) <= KeywordScoreOf(b))
                 => Geq(ConfidenceOf(b), ConfidenceOf(a))
    /\ \A a \in ScoredCalls :
           a[2].ret[1] <=> Geq(ConfidenceOf(a), confidence_threshold)
    /\ ReportedAboveThreshold

\* C20 witness: is_email_column('f1', ['a@b.co']) returned 0.6 and
\* is_email_column('email', ['a@b.co']), with the same content score 1 and
\* the higher keyword score 1.0, returned 1.0
C20_Witness ==
    /\ ncalls = 2
    /\ Len(first_ret) = 2
    /\ first_ret[1][1] = <<"is_email_column",
                           <<<<"f","1">>, <<<<"a","@","b",".","c","o">>>>>>>>
    /\ first_ret[2][1] = <<"is_email_column",
                           <<<<"e","m","a","i","l">>, <<<<"a","@","b",".","c","o">>>>>>>>
    /\ BothBlended(first_ret[1], first_ret[2])
    /\ Same(ContentScoreOf(first_ret[1]), ContentScoreOf(first_ret[2]))
    /\ KeywordScoreOf(first_ret[1]) < KeywordScoreOf(first_ret[2])
    /\ Same(ConfidenceOf(first_ret[1]), <<6, 10>>)
    /\ Same(ConfidenceOf(first_ret[2]), <<1, 1>>)

(* ------------------ properties of the classifier's helpers ------------ *)

\* the keywords of a dictionary contained in a normalized column name
ContainedKeywords(column_lower, keywords) ==
    {kw \in keywords : Contains(column_lower, kw[1])}

\* what a contained keyword is worth, in hundredths: its weight times 1.2 when
\* the name is the keyword, 1.1 when the name starts or ends with it, else 1.0
WorthOf(column_lower, kw) ==
    IF column_lower = kw[1] THEN 12 * kw[2]
    ELSE IF StartsWith(column_lower, kw[1]) \/ EndsWith(column_lower, kw[1])
    THEN 11 * kw[2]
    ELSE 10 * kw[2]

\* C21: _calculate_keyword_score returns 0.0 when the normalized column name
\* contains no keyword of the dictionary; else the largest worth of a contained
\* keyword (weight*1.2 for the name itself, weight*1.1 for a prefix or suffix,
\* weight otherwise), capped at 1.0.
C21_KeywordScoreIsCappedMaximum ==
    call[1] = "_calculate_keyword_score"
        => \A column_lower \in {_normalize_text(call[2][1])} :
           \A contained \in {ContainedKeywords(column_lower, KeywordDicts[call[2][2]])} :
               IF contained = {}
               THEN Same(ret, <<0, 1>>)
               ELSE \E best \in contained :
                        /\ \A kw \in contained :
                               WorthOf(column_lower, kw) <= WorthOf(column_lower, best)
                        /\ WorthOf(column_lower, best) <= 100
                              => Same(ret, <<WorthOf(column_lower, best), 100>>)
                        /\ WorthOf(column_lower, best) > 100 => Same(ret, <<1, 1>>)

\* C21 witness: 'x_mail' ends with 'mail' (0.9): the score is 0.99, neither
\* the weight nor the cap
C21_Witness ==
    /\ call = <<"_calculate_keyword_score", <<<<"x","_","m","a","i","l">>, "email_keywords">>>>
    /\ Same(ret, <<99, 100>>)

\* a linking particle
IsParticle(w) == Lower(w) \in connectors

\* the words of a text that are not linking particles
NameWords(text) == SelectSeq(Split(text), LAMBDA w : ~IsParticle(w))

\* C22: a text of 3 to 150 characters made of 2 to 5 capitalized name words
\* and any number of linking particles, without digits or special
\* characters, none of the name words on the blocklist, looks like a name.
C22_ParticlesIgnored ==
    call[1] = "_looks_like_name"
        => \A text \in {call[2]} :
           \A name_words \in {NameWords(text)} :
               (/\ Len(text) >= 3 /\ Len(text) <= 150
                /\ Len(name_words) >= 2 /\ Len(name_words) <= 5
                /\ \A i \in 1..Len(name_words) :
                       /\ IsUpper(name_words[i][1])
                       /\ _normalize_text(name_words[i]) \notin common_words
                /\ \A i \in 1..Len(text) : text[i] \in NameChars)
                   => ret = TRUE

(* ---------------- properties of the classifier: counters -------------- *)

\* 1 when the call accepted the column, else 0
Accepted(r) == IF r[1] THEN 1 ELSE 0

\* C23: every is_email_column call adds one to email_detection_attempts, and
\* one to email_detection_success exactly when it accepts the column;
\* every is_name_column call does the same with the name counters; whichever
\* way the call ends.
C23_EveryCallCounted ==
    [][/\ call'[1] = "is_email_column"
            => /\ stats'["email_detection_attempts"]
                      = stats["email_detection_attempts"] + 1
               /\ stats'["email_detection_success"]
                      = stats["email_detection_success"] + Accepted(ret')
       /\ call'[1] = "is_name_column"
            => /\ stats'["name_detection_attempts"]
                      = stats["name_detection_attempts"] + 1
               /\ stats'["name_detection_success"]
                      = stats["name_detection_success"] + Accepted(ret')]_vars

(* ------------- properties of the text scanner: overlaps, order -------- *)

IsEmailSpan(span) == HasChar(span[3], "@")

\* the spans of the last anonymize_text call in the order they were queued
Queued == ret.queued

\* C25: in anonymize_text the email pass is the last one: every email span
\* is queued after every name span.
C25_EmailPassLast ==
    call[1] = "anonymize_text" /\ ~TooShortToScan(call[2][1])
        => \A i, j \in 1..Len(Queued) :
               IsEmailSpan(Queued[i]) /\ ~IsEmailSpan(Queued[j]) => j < i

\* C25 as amended: the email pass is the first one: every email span is
\* queued before every name span; the name spans are person spans of the
\* recognition port, none of which begins or ends inside an email span; no
\* other pass queues a span.
C25_EmailPassFirst ==
    call[1] = "anonymize_text" /\ ~TooShortToScan(call[2][1])
        => /\ \A i, j \in 1..Len(Queued) :
                  IsEmailSpan(Queued[i]) /\ ~IsEmailSpan(Queued[j]) => i < j
           /\ \A j \in 1..Len(Queued) :
                  ~IsEmailSpan(Queued[j])
                      => /\ \E k \in 1..Len(call[2][2].ents) :
                                call[2][2].ents[k] = <<"PER", Queued[j][1], Queued[j][2]>>
                         /\ \A i \in 1..Len(Queued) :
                                IsEmailSpan(Queued[i])
                                    => ~(/\ Queued[i][1] <= Queued[j][1]
                                         /\ Queued[j][1] < Queued[i][2])
                                       /\ ~(/\ Queued[i][1] < Queued[j][2]
                                            /\ Queued[j][2] <= Queued[i][2])

\* C25 witness: in 'a@b.co Al Bo' the span of a@b.co was queued first and
\* the span of 'Al Bo' second, although the sorted list has them the other
\* way round
C25_Witness ==
    /\ call[1] = "anonymize_text"
    /\ call[2] = <<TextEmailName.text, Found(<<<<"PER", 7, 12>>>>)>>
    /\ Len(Queued) = 2
    /\ IsEmailSpan(Queued[1])
    /\ Queued[2][3] = <<"A","l"," ","B","o">>
    /\ ret.replacements = <<Queued[2], Queued[1]>>

(* ------------------- properties of the recognition cache -------------- *)

\* C26: after every _is_person_entity call the cache holds at most 1000
\* entries; a call that inserts an entry appends it, and when that makes 1001
\* entries the 200 oldest are removed, the others and the new entry staying
\* in insertion order.
C26_CacheBounded ==
    [][call'[1] = "_is_person_entity"
          => /\ Len(spacy_cache') <= SpacyCacheLimit
             /\ spacy_cache' # spacy_cache
                   => /\ ~Has(spacy_cache, call'[2])
                      /\ spacy_cache'[Len(spacy_cache')] = <<call'[2], ret'>>
                      /\ IF Len(spacy_cache) + 1 > SpacyCacheLimit
                         THEN /\ Len(spacy_cache') = Len(spacy_cache) + 1 - SpacyCacheEvict
                              /\ \A i \in 1..(Len(spacy_cache') - 1) :
                                     spacy_cache'[i] = spacy_cache[i + SpacyCacheEvict]
                         ELSE /\ Len(spacy_cache') = Len(spacy_cache) + 1
                              /\ \A i \in 1..Len(spacy_cache) :
                                     spacy_cache'[i] = spacy_cache[i]]_vars

\* C26 witness: the call on 'abc def ghi' made 1001 entries: 801 are left,
\* 'n1201' is now the oldest, 'n1200' is gone and the new entry is the last
C26_Witness ==
    /\ call = <<"_is_person_entity", <<"a","b","c"," ","d","e","f"," ","g","h","i">>>>
    /\ Len(spacy_cache) = SpacyCacheLimit + 1 - SpacyCacheEvict
    /\ spacy_cache[1][1] = NumText(SpacyCacheEvict + 1)
    /\ ~Has(spacy_cache, NumText(SpacyCacheEvict))
    /\ spacy_cache[Len(spacy_cache)][1] = call[2]

\* the port invocations made by the step: <<text, answer>> each
NewInvocations == SubSeq(first_ret', Len(first_ret) + 1, Len(first_ret'))

\* C27 as stated: every invocation of the port, by column classification or
\* by text scanning, is for a text that is not cached, and leaves the port's
\* answer for that text in the cache.
C27_PortMemoized ==
    [][\A i \in 1..Len(NewInvocations) :
          /\ ~Has(spacy_cache, NewInvocations[i][1])
          /\ Has(spacy_cache', NewInvocations[i][1])
          /\ Get(spacy_cache', NewInvocations[i][1]) = (NewInvocations[i][2] = "PER")]_vars

\* C27 amended: column classification (_is_person_entity, is_name_column)
\* invokes the port only for a text that is not cached; an answer of the
\* port is then cached for that text, a failure of the port caches nothing.
\* Text scanning invokes the port for every scanned text, cached or not, and
\* neither reads nor changes the cache.
C27_ClassificationMemoized ==
    [][/\ call'[1] \in {"_is_person_entity", "is_name_column"}
          => \A i \in 1..Len(NewInvocations) :
                 /\ ~Has(spacy_cache, NewInvocations[i][1])
                 /\ IF NewInvocations[i][2] = "raise"
                    THEN ~Has(spacy_cache', NewInvocations[i][1])
                    ELSE /\ Has(spacy_cache', NewInvocations[i][1])
                         /\ Get(spacy_cache', NewInvocations[i][1])
                               = (NewInvocations[i][2] = "PER")
       /\ call'[1] = "_is_person_entity" /\ Has(spacy_cache, call'[2])
          => /\ NewInvocations = <<>>
             /\ ret' = Get(spacy_cache, call'[2])
             /\ spacy_cache' = spacy_cache
       /\ call'[1] = "anonymize_text"
          => /\ spacy_cache' = spacy_cache
             /\ Len(NewInvocations) = 1
             /\ NewInvocations[1][1] = Strip(call'[2][1])]_vars

\* C27 witness: the port said PER for 'abc def ghi' once; the second
\* _is_person_entity call on it was answered from the cache
C27_Witness ==
    /\ ncalls = 2
    /\ call = <<"_is_person_entity", <<"a","b","c"," ","d","e","f"," ","g","h","i">>>>
    /\ first_ret = <<<<call[2], "PER">>>>
    /\ Has(spacy_cache, call[2])
    /\ Get(spacy_cache, call[2]) = TRUE
    /\ ret = TRUE

(* ------------- properties of the classifier: content required ---------- *)

\* the most a classifier returns when no sample passed its content check:
\* 0.4 for is_email_column, 0.35 for is_name_column
KeywordShare(op) == IF op = "is_email_column" THEN <<4, 10>> ELSE <<35, 100>>

\* a kept call of a non-excluded column that had at least one valid sample,
\* none of which passed the content check
NoSamplePassed(c) ==
    /\ c[2].sub_scores.branch = "blend"
    /\ c[2].sub_scores.n >= 1
    /\ c[2].sub_scores.hits = 0

\* C28: a call of is_email_column or is_name_column on a non-excluded column
\* with at least one valid sample and no sample passing the content check
\* rejects the column, with a confidence of at most 0.4 (email) or 0.35
\* (name); a call on a non-excluded column with no valid sample returns the
\* keyword score as confidence and accepts when it is at least 0.6.
C28_ContentRequired ==
    \A c \in ScoredCalls :
        /\ NoSamplePassed(c)
              => /\ c[2].ret[1] = FALSE
                 /\ Geq(KeywordShare(c[1][1]), ConfidenceOf(c))
        /\ c[2].sub_scores.branch = "keyword"
              => /\ Same(ConfidenceOf(c), <<KeywordScoreOf(c), 100>>)
                 /\ c[2].ret[1] <=> KeywordScoreOf(c) >= 60

\* C28 witness: is_email_column('email', ['Al Bo', 'xyz']) was rejected with
\* 0.4 and is_email_column('email', [None, '']) accepted with 1.0
C28_Witness ==
    /\ Len(first_ret) = 2
    /\ first_ret[1][1] = <<"is_email_column",
                           <<<<"e","m","a","i","l">>,
                             <<<<"A","l"," ","B","o">>, <<"x","y","z">>>>>>>>
    /\ first_ret[2][1] = <<"is_email_column",
                           <<<<"e","m","a","i","l">>, <<None, <<>>>>>>>>
    /\ NoSamplePassed(first_ret[1])
    /\ first_ret[1][2].ret[1] = FALSE
    /\ Same(ConfidenceOf(first_ret[1]), <<4, 10>>)
    /\ first_ret[2][2].sub_scores.branch = "keyword"
    /\ first_ret[2][2].ret[1] = TRUE
    /\ Same(ConfidenceOf(first_ret[2]), <<1, 1>>)

(* -------------------- properties of the PostgreSQL driver ------------- *)

\* C29: _anonymize_text_column issues an UPDATE only for a row in which
\* anonymize_text replaced some PII: a text of 10 or more trimmed characters
\* with no replacement span comes back character for character and its row
\* is left alone.
C29_UpdateOnlyWhenReplaced ==
    call[1] = "anonymize_text_columns"
        => \A k \in 1..Len(ret.updates) : ret.updates[k].replacements # <<>>

\* detect_pii_columns reported column c
Reported(pii_columns, c) == Has(pii_columns, DriverColumns[c])

\* the type it reported for column c
ReportedType(pii_columns, c) == Get(pii_columns, DriverColumns[c])[1]

\* the count anonymize_all printed for column c
ReportedCount(counts, c) ==
    counts[CHOOSE j \in 1..Len(counts) : counts[j][1] = DriverColumns[c]][3]

\* the UPDATE statements issued for column c
UpdatesOf(updates, c) == SelectSeq(updates, LAMBDA u : u[2] = DriverColumns[c])

\* the synthetic value the Value Anonymizer holds for v, if it holds one
IsSyntheticFor(new_value, type, v, names, emails) ==
    IF type = "name"
    THEN Has(names, NameKey(v)) /\ new_value = Get(names, NameKey(v))
    ELSE Has(emails, EmailKey(v)) /\ new_value = Get(emails, EmailKey(v))

\* what the Value Anonymizer returns for v: v itself when it is blank or
\* invalid for the type
ValuePassesThrough(type, v) ==
    IF type = "name" THEN NamePassThrough(v) ELSE EmailPassThrough(v)

\* C30: after anonymize_all every non-null value of a column that
\* detect_pii_columns reported as name or email is what the Value Anonymizer
\* returns for the value that was stored (its synthetic value, or the value
\* itself when it is blank or invalid for the type); every non-null row of
\* the column got an UPDATE and the count reported for the column is their
\* number. NULL values and columns that were not reported are left alone.
C30_EveryValueThroughAnonymizer ==
    [][call'[1] = "anonymize_all"
          => /\ Len(db') = Len(db)
             /\ \A c \in 1..Len(DriverColumns) :
                 IF Reported(ret'.pii_columns, c)
                 THEN /\ \A i \in 1..Len(db) :
                             IF db[i][c] = None THEN db'[i][c] = None
                             ELSE IF ValuePassesThrough(ReportedType(ret'.pii_columns, c),
                                                        db[i][c])
                             THEN db'[i][c] = db[i][c]
                             ELSE IsSyntheticFor(db'[i][c],
                                                 ReportedType(ret'.pii_columns, c),
                                                 db[i][c], name_mapping', email_mapping')
                      /\ ReportedCount(ret'.counts, c) = Len(UpdatesOf(ret'.updates, c))
                      /\ ReportedCount(ret'.counts, c)
                            = Cardinality({i \in 1..Len(db) : db[i][c] # None})
                 ELSE /\ \A i \in 1..Len(db) : db'[i][c] = db[i][c]
                      /\ UpdatesOf(ret'.updates, c) = <<>>]_vars
=============================================================================
